---- MODULE Spec2Model ----
(***************************************************************************)
(* Model of the Keycloak MCP server's authenticated-operation wrapper      *)
(* (src/src/index.ts): KeycloakAdminManager.createFreshClient and          *)
(* KeycloakAdminManager.executeOperation, as driven by tool calls.         *)
(*                                                                         *)
(* Strings are TLA+ strings; toLowerCase and includes are computed         *)
(* character by character.  An async function is cut at its awaits: the    *)
(* code between two awaits runs atomically on the JavaScript event loop    *)
(* and is one action.                                                      *)
(***************************************************************************)
EXTENDS Integers, Sequences, FiniteSets, TLC

(***************************************************************************)
(* Bounds of the model.                                                    *)
(***************************************************************************)
\* Number of client objects constructed in one behaviour.
MaxClients == 4

\* Failed tool calls are counted up to this number.
MaxFailures == 2

\* The requests that can be in flight at the same time.
Ops == {"t1", "t2"}

(***************************************************************************)
(* Strings.                                                                *)
(***************************************************************************)
UpperChars == "ABCDEFGHIJKLMNOPQRSTUVWXYZ"
LowerChars == "abcdefghijklmnopqrstuvwxyz"

CharAt(s, i) == SubSeq(s, i, i)

\* String.prototype.toLowerCase on one character.
LowerChar(c) ==
    IF \E i \in 1..Len(UpperChars) : CharAt(UpperChars, i) = c
    THEN CharAt(LowerChars, CHOOSE i \in 1..Len(UpperChars) : CharAt(UpperChars, i) = c)
    ELSE c

\* String.prototype.toLowerCase: every character lowered, in place (the
\* string is split in halves to keep the evaluation shallow).
RECURSIVE toLowerCase(_)
toLowerCase(s) ==
    IF Len(s) = 0 THEN ""
    ELSE IF Len(s) = 1 THEN LowerChar(s)
    ELSE LET half == Len(s) \div 2
         IN  toLowerCase(SubSeq(s, 1, half)) \o toLowerCase(SubSeq(s, half + 1, Len(s)))

\* String.prototype.includes: p occurs in s as a contiguous substring.
includes(s, p) ==
    \E i \in 1..(Len(s) - Len(p) + 1) : SubSeq(s, i, i + Len(p) - 1) = p

(***************************************************************************)
(* Thrown values.  kind "Error" is a plain Error, "McpError" the SDK's     *)
(* protocol error (a subclass of Error), "value" a thrown non-Error whose  *)
(* String() form is kept in message.                                       *)
(***************************************************************************)
NoError == [kind |-> "none", message |-> ""]

Error(m) == [kind |-> "Error", message |-> m]

Thrown(m) == [kind |-> "value", message |-> m]

\* error instanceof Error
instanceofError(e) == e.kind \in {"Error", "McpError"}

\* error instanceof McpError
instanceofMcpError(e) == e.kind = "McpError"

\* ErrorCode.InternalError of the protocol SDK, as it is printed.
InternalError == "-32603"

\* new McpError(code, message): the SDK's constructor passes
\* `MCP error ${code}: ${message}` to Error.
McpError(code, m) == [kind |-> "McpError", message |-> "MCP error " \o code \o ": " \o m]


(***************************************************************************)
(* createFreshClient: the pieces of its retry loop.                        *)
(***************************************************************************)
maxRetries == 2

\* catch (error): lastError = error instanceof Error ? error : new Error(String(error))
CaughtAsError(e) == IF instanceofError(e) THEN e ELSE Error(e.message)

\* Variant: the loop has no bound.
LoopContinues_Always(a) == TRUE

\* Variant: the loop runs one attempt too many.
LoopContinues_OneMore(a) == a <= maxRetries + 1

\* for (...; attempt <= maxRetries; ...)
LoopContinues(a) == a <= maxRetries

\* Variant: a wait follows every failed attempt, the final one included.
WaitsAfter_Always(a) == TRUE

\* if (attempt < maxRetries): only then is there a wait.
WaitsAfter(a) == a < maxRetries

\* waitTime = Math.min(1000 * Math.pow(2, attempt - 1), 3000)
waitTime(a) ==
    LET grown == 1000 * (2 ^ (a - 1))
    IN  IF grown < 3000 THEN grown ELSE 3000

\* lastError?.message || 'Unknown error'
LastMessage(le) ==
    IF le.kind = "none" \/ le.message = ""
    THEN "Unknown error"
    ELSE le.message

\* The decimal form of the maxRetries interpolated into the message.
maxRetriesText == CASE maxRetries = 1 -> "1" [] maxRetries = 2 -> "2"
                    [] maxRetries = 3 -> "3" [] OTHER -> "many"

\* throw new McpError(InternalError, `Keycloak authentication failed after ...`)
AllAttemptsFailed(le) ==
    McpError(InternalError,
             "Keycloak authentication failed after " \o maxRetriesText
                 \o " attempts: " \o LastMessage(le))

(***************************************************************************)
(* executeOperation: what its catch block throws for a caught value.       *)
(***************************************************************************)
MsgConnection ==
    "Keycloak server connection failed. The server may be temporarily unavailable or experiencing network issues. Please check server status and try again in a moment."
MsgAuthentication ==
    "Keycloak authentication failed. Please verify admin credentials and permissions."
MsgTimeout ==
    "Keycloak server timeout or connection reset. The server may be under load. Please try again."
MsgUnreachable ==
    "Cannot connect to Keycloak server. Please verify the server URL and ensure the server is running."
MsgAccessDenied ==
    "Access denied. The admin user may lack sufficient permissions for this operation."
MsgTls ==
    "SSL/TLS connection error. Please check certificate configuration and trust settings."
MsgGenericPrefix == "Keycloak operation failed: "

\* Variant: the 403/forbidden test placed before the econnrefused/enotfound test.
SpecificMessage_403First(errorMsg) ==
    IF includes(errorMsg, "network response was not ok") THEN MsgConnection
    ELSE IF includes(errorMsg, "401") \/ includes(errorMsg, "unauthorized")
         THEN MsgAuthentication
    ELSE IF includes(errorMsg, "timeout") \/ includes(errorMsg, "etimedout")
                \/ includes(errorMsg, "econnreset")
         THEN MsgTimeout
    ELSE IF includes(errorMsg, "403") \/ includes(errorMsg, "forbidden")
         THEN MsgAccessDenied
    ELSE IF includes(errorMsg, "econnrefused") \/ includes(errorMsg, "enotfound")
         THEN MsgUnreachable
    ELSE IF includes(errorMsg, "ssl") \/ includes(errorMsg, "certificate")
                \/ includes(errorMsg, "handshake")
         THEN MsgTls
    ELSE ""

\* Variant: the timeout test placed before the 401/unauthorized test.
SpecificMessage_TimeoutFirst(errorMsg) ==
    IF includes(errorMsg, "network response was not ok") THEN MsgConnection
    ELSE IF includes(errorMsg, "timeout") \/ includes(errorMsg, "etimedout")
                \/ includes(errorMsg, "econnreset")
         THEN MsgTimeout
    ELSE IF includes(errorMsg, "401") \/ includes(errorMsg, "unauthorized")
         THEN MsgAuthentication
    ELSE IF includes(errorMsg, "econnrefused") \/ includes(errorMsg, "enotfound")
         THEN MsgUnreachable
    ELSE IF includes(errorMsg, "403") \/ includes(errorMsg, "forbidden")
         THEN MsgAccessDenied
    ELSE IF includes(errorMsg, "ssl") \/ includes(errorMsg, "certificate")
                \/ includes(errorMsg, "handshake")
         THEN MsgTls
    ELSE ""

\* Variant: the TLS message quotes the failure it was raised for.
SpecificMessage_TlsQuotes(errorMsg) ==
    IF includes(errorMsg, "network response was not ok") THEN MsgConnection
    ELSE IF includes(errorMsg, "401") \/ includes(errorMsg, "unauthorized")
         THEN MsgAuthentication
    ELSE IF includes(errorMsg, "timeout") \/ includes(errorMsg, "etimedout")
                \/ includes(errorMsg, "econnreset")
         THEN MsgTimeout
    ELSE IF includes(errorMsg, "econnrefused") \/ includes(errorMsg, "enotfound")
         THEN MsgUnreachable
    ELSE IF includes(errorMsg, "403") \/ includes(errorMsg, "forbidden")
         THEN MsgAccessDenied
    ELSE IF includes(errorMsg, "ssl") \/ includes(errorMsg, "certificate")
                \/ includes(errorMsg, "handshake")
         THEN MsgTls \o " (" \o errorMsg \o ")"
    ELSE ""

\* Variant: no test for econnrefused/enotfound.
SpecificMessage_NoRefused(errorMsg) ==
    IF includes(errorMsg, "network response was not ok") THEN MsgConnection
    ELSE IF includes(errorMsg, "401") \/ includes(errorMsg, "unauthorized")
         THEN MsgAuthentication
    ELSE IF includes(errorMsg, "timeout") \/ includes(errorMsg, "etimedout")
                \/ includes(errorMsg, "econnreset")
         THEN MsgTimeout
    ELSE IF includes(errorMsg, "403") \/ includes(errorMsg, "forbidden")
         THEN MsgAccessDenied
    ELSE IF includes(errorMsg, "ssl") \/ includes(errorMsg, "certificate")
                \/ includes(errorMsg, "handshake")
         THEN MsgTls
    ELSE ""

\* The cascade of ifs over errorMsg = error.message.toLowerCase().
SpecificMessage(errorMsg) ==
    IF includes(errorMsg, "network response was not ok") THEN MsgConnection
    ELSE IF includes(errorMsg, "401") \/ includes(errorMsg, "unauthorized")
         THEN MsgAuthentication
    ELSE IF includes(errorMsg, "timeout") \/ includes(errorMsg, "etimedout")
                \/ includes(errorMsg, "econnreset")
         THEN MsgTimeout
    ELSE IF includes(errorMsg, "econnrefused") \/ includes(errorMsg, "enotfound")
         THEN MsgUnreachable
    ELSE IF includes(errorMsg, "403") \/ includes(errorMsg, "forbidden")
         THEN MsgAccessDenied
    ELSE IF includes(errorMsg, "ssl") \/ includes(errorMsg, "certificate")
                \/ includes(errorMsg, "handshake")
         THEN MsgTls
    ELSE ""

\* `Keycloak operation failed: ${error instanceof Error ? error.message : 'Unknown error'}`
GenericMessage(error) ==
    MsgGenericPrefix \o (IF instanceofError(error) THEN error.message ELSE "Unknown error")

\* The whole catch block: the McpError it throws for the caught value.
CatchBlock(error) ==
    LET specific == IF instanceofError(error)
                    THEN SpecificMessage(toLowerCase(error.message))
                    ELSE ""
    IN  IF specific # ""
        THEN McpError(InternalError, specific)
        ELSE McpError(InternalError, GenericMessage(error))

(***************************************************************************)
(* Inputs: what the identity server's client library can answer.           *)
(***************************************************************************)
\* Messages of the Errors an external admin-API call can reject with.
FailureMessages ==
    { "Network response was not OK.",
      "Request failed with status code 401",
      "Unauthorized",
      "timeout of 15000ms exceeded",
      "connect ETIMEDOUT 10.0.0.1:8080",
      "read ECONNRESET",
      "ECONNREFUSED 127.0.0.1:8080",
      "getaddrinfo ENOTFOUND keycloak",
      "Request failed with status code 403",
      "Forbidden",
      "SSL routines: wrong version number",
      "unable to verify the first certificate",
      "TLS Handshake failed",
      "User exists with same username",
      "",
      "Network response was not ok: 401 Unauthorized",
      "HTTP 401 Unauthorized: request timeout",
      "read ECONNRESET from ENOTFOUND host",
      "ECONNREFUSED: 403 Forbidden",
      "403 Forbidden: certificate rejected",
      "Client ssl-gateway not found or invalid" }

\* Non-Error values a call can reject with, by their String() form.
ThrownValues == { "invalid_grant", "401" }

\* Rejections of an external admin-API call inside an operation body.
OperationFailures ==
    { Error(m) : m \in FailureMessages } \cup { Thrown(v) : v \in ThrownValues }

\* Rejections of client.auth(authConfig).
AuthFailures ==
    { Error("Network response was not OK."),
      Error("connect ECONNREFUSED 127.0.0.1:8080"),
      Error("invalid_grant: Invalid user credentials"),
      Error(""),
      Thrown("401") }

\* Values an operation body can resolve with.
NoValue == "<none>"
Results == { "undefined", "[]", "{id: u-1}" }

\* The absent reference (null) and the client objects, named by allocation order.
NoClient == 0

(***************************************************************************)
(* Tool calls: JavaScript values, argument bags and the zod schemas.       *)
(***************************************************************************)
\* A JavaScript value: its typeof and its printed form.
Str(x) == [t |-> "string", v |-> x]
Bool(x) == [t |-> "boolean", v |-> IF x THEN "true" ELSE "false"]
Num(x) == [t |-> "number", v |-> x]
Undef == [t |-> "undefined", v |-> ""]

\* if (x): JavaScript truthiness.
Truthy(x) ==
    CASE x.t = "undefined" -> FALSE
      [] x.t = "string"    -> x.v # ""
      [] x.t = "boolean"   -> x.v = "true"
      [] x.t = "number"    -> x.v \notin {"0", "NaN"}

\* bag.key: undefined when the key is absent.
Get(bag, key) == IF key \in DOMAIN bag THEN bag[key] ELSE Undef

\* One key of a z.object: z.string(), z.string().email(), z.boolean(),
\* z.number() or z.enum(options), with or without .optional().
Field(key, kind, optional, options) ==
    [key |-> key, kind |-> kind, optional |-> optional, options |-> options]
Required(key, kind) == Field(key, kind, FALSE, {})
Optional(key, kind) == Field(key, kind, TRUE, {})

CreateUserSchema ==
    << Required("realm", "string"), Required("username", "string"),
       Required("email", "email"), Required("firstName", "string"),
       Required("lastName", "string") >>
DeleteUserSchema == << Required("realm", "string"), Required("userId", "string") >>
ListRealmsSchema == << Optional("random_string", "string") >>
ListUsersSchema == << Required("realm", "string") >>
ResetUserPasswordSchema ==
    << Required("realm", "string"), Required("userId", "string"),
       Required("newPassword", "string"), Optional("temporary", "boolean") >>
\* (redirectUris, an optional array of strings, is left out: the requests
\* explored never carry it.)
UpdateClientSchema ==
    << Required("realm", "string"), Required("clientId", "string"),
       Optional("name", "string"), Optional("description", "string"),
       Optional("enabled", "boolean"), Optional("publicClient", "boolean") >>
DeleteClientSchema == << Required("realm", "string"), Required("clientId", "string") >>
CreateRoleSchema ==
    << Required("realm", "string"), Required("roleName", "string"),
       Optional("description", "string"), Optional("clientId", "string") >>
UpdateRoleSchema ==
    << Required("realm", "string"), Required("roleName", "string"),
       Optional("newName", "string"), Optional("description", "string"),
       Optional("clientId", "string") >>
DeleteRoleSchema ==
    << Required("realm", "string"), Required("roleName", "string"),
       Optional("clientId", "string") >>
AssignRoleToUserSchema ==
    << Required("realm", "string"), Required("userId", "string"),
       Required("roleName", "string") >>
RemoveRoleFromUserSchema ==
    << Required("realm", "string"), Required("userId", "string"),
       Required("roleName", "string") >>
CreateGroupSchema ==
    << Required("realm", "string"), Required("name", "string"),
       Optional("parentId", "string") >>
ManageUserGroupsSchema ==
    << Required("realm", "string"), Required("userId", "string"),
       Required("groupId", "string"),
       Field("action", "enum", FALSE, {"add", "remove"}) >>
ListSessionsSchema == << Required("realm", "string"), Optional("clientId", "string") >>

\* z.string().email(): one "@" with a local part before it and a dotted
\* domain after it.
IsEmail(x) ==
    \E i \in 2..(Len(x) - 3) :
        /\ CharAt(x, i) = "@"
        /\ ~includes(SubSeq(x, 1, i - 1), "@")
        /\ ~includes(SubSeq(x, i + 1, Len(x)), "@")
        /\ \E j \in (i + 2)..(Len(x) - 1) : CharAt(x, j) = "."

\* The issue zod raises for one key of the bag, "" when there is none.
Issue(field, bag) ==
    LET x == Get(bag, field.key)
        wanted == IF field.kind \in {"email", "enum"} THEN "string" ELSE field.kind
    IN  IF x.t = "undefined"
        THEN IF field.optional THEN "" ELSE field.key \o ": Required"
        ELSE IF x.t # wanted
        THEN field.key \o ": Expected " \o wanted \o ", received " \o x.t
        ELSE IF field.kind = "email" /\ ~IsEmail(x.v)
        THEN field.key \o ": Invalid email"
        ELSE IF field.kind = "enum" /\ x.v \notin field.options
        THEN field.key \o ": Invalid enum value"
        ELSE ""

\* The issues of a bag against a schema, in schema order.
RECURSIVE Issues(_, _)
Issues(schema, bag) ==
    IF schema = <<>> THEN <<>>
    ELSE LET first == Issue(Head(schema), bag)
         IN  (IF first = "" THEN <<>> ELSE <<first>>) \o Issues(Tail(schema), bag)

RECURSIVE Joined(_)
Joined(texts) ==
    IF texts = <<>> THEN ""
    ELSE IF Len(texts) = 1 THEN Head(texts)
    ELSE Head(texts) \o "; " \o Joined(Tail(texts))

\* Schema.parse(args) throws a ZodError (an Error) listing the issues ...
ZodError(schema, bag) == Error(Joined(Issues(schema, bag)))

\* ... or returns the keys of the schema that the bag defines.
Parses(schema, bag) == Issues(schema, bag) = <<>>
Parsed(schema, bag) ==
    LET keys == { schema[i].key : i \in 1..Len(schema) }
    IN  [k \in { k \in keys \cap DOMAIN bag : bag[k].t # "undefined" } |-> bag[k]]

(***************************************************************************)
(* Tool calls: what each case of the handler's switch does.                *)
(***************************************************************************)
\* Variant: the switch has no case for list-sessions.
HandledTools_NoListSessions ==
    { "create-user", "delete-user", "list-realms", "list-users", "update-user",
      "get-user", "reset-user-password", "search-users", "logout-user",
      "create-realm", "update-realm", "delete-realm", "get-realm-settings",
      "create-client", "update-client", "delete-client", "list-clients",
      "list-roles", "create-role", "update-role", "delete-role",
      "assign-role-to-user", "remove-role-from-user", "get-user-roles",
      "create-group", "update-group", "delete-group", "list-groups",
      "manage-user-groups", "get-user-sessions", "list-events", "clear-events" }

\* The case labels of the switch on the tool name.
HandledTools ==
    { "create-user", "delete-user", "list-realms", "list-users", "update-user",
      "get-user", "reset-user-password", "search-users", "logout-user",
      "create-realm", "update-realm", "delete-realm", "get-realm-settings",
      "create-client", "update-client", "delete-client", "list-clients",
      "list-roles", "create-role", "update-role", "delete-role",
      "assign-role-to-user", "remove-role-from-user", "get-user-roles",
      "create-group", "update-group", "delete-group", "list-groups",
      "manage-user-groups", "list-sessions", "get-user-sessions",
      "list-events", "clear-events" }

\* The names in the tools array the ListTools handler returns, in its order.
AdvertisedTools ==
    { "create-user", "delete-user", "list-users", "update-user", "get-user",
      "reset-user-password", "search-users", "logout-user",
      "list-realms", "create-realm", "update-realm", "delete-realm",
      "get-realm-settings",
      "create-client", "update-client", "delete-client", "list-clients",
      "list-roles", "create-role", "update-role", "delete-role",
      "assign-role-to-user", "remove-role-from-user", "get-user-roles",
      "create-group", "update-group", "delete-group", "list-groups",
      "manage-user-groups",
      "list-sessions", "get-user-sessions", "list-events", "clear-events" }

\* The cases whose bodies are modelled call by call.
ModelledTools ==
    { "create-user", "delete-user", "list-realms", "list-users",
      "reset-user-password", "update-client", "delete-client", "create-role",
      "update-role", "delete-role", "assign-role-to-user",
      "remove-role-from-user", "create-group", "manage-user-groups",
      "list-sessions" }

\* inputSchema of the tool's entry in the ListTools answer: the type of each
\* property and the required list (the catalogue declares no format;
\* redirectUris of update-client is left out as in UpdateClientSchema).
InputSchema(tool) ==
    CASE tool = "create-user" ->
            << Required("realm", "string"), Required("username", "string"),
               Required("email", "string"), Required("firstName", "string"),
               Required("lastName", "string") >>
      [] tool = "delete-user" ->
            << Required("realm", "string"), Required("userId", "string") >>
      [] tool = "list-users" -> << Required("realm", "string") >>
      [] tool = "reset-user-password" ->
            << Required("realm", "string"), Required("userId", "string"),
               Required("newPassword", "string"), Optional("temporary", "boolean") >>
      [] tool = "list-realms" -> << Required("random_string", "string") >>
      [] tool = "update-client" ->
            << Required("realm", "string"), Required("clientId", "string"),
               Optional("name", "string"), Optional("description", "string"),
               Optional("enabled", "boolean"), Optional("publicClient", "boolean") >>
      [] tool = "delete-client" ->
            << Required("realm", "string"), Required("clientId", "string") >>
      [] tool = "create-role" ->
            << Required("realm", "string"), Required("roleName", "string"),
               Optional("description", "string"), Optional("clientId", "string") >>
      [] tool = "update-role" ->
            << Required("realm", "string"), Required("roleName", "string"),
               Optional("newName", "string"), Optional("description", "string"),
               Optional("clientId", "string") >>
      [] tool = "delete-role" ->
            << Required("realm", "string"), Required("roleName", "string"),
               Optional("clientId", "string") >>
      [] tool = "assign-role-to-user" ->
            << Required("realm", "string"), Required("userId", "string"),
               Required("roleName", "string") >>
      [] tool = "remove-role-from-user" ->
            << Required("realm", "string"), Required("userId", "string"),
               Required("roleName", "string") >>
      [] tool = "create-group" ->
            << Required("realm", "string"), Required("name", "string"),
               Optional("parentId", "string") >>
      [] tool = "manage-user-groups" ->
            << Required("realm", "string"), Required("userId", "string"),
               Required("groupId", "string"),
               Field("action", "enum", FALSE, {"add", "remove"}) >>
      [] tool = "list-sessions" ->
            << Required("realm", "string"), Optional("clientId", "string") >>

\* The bag has every required property, each of the declared type.
Conforms(tool, bag) == Issues(InputSchema(tool), bag) = <<>>

\* Variant: every case parses.
ParsesArgs_Always(tool) == TRUE

\* The case parses its arguments: every case but list-realms does.
ParsesArgs(tool) == tool # "list-realms"

SchemaOf(tool) ==
    CASE tool = "create-user"           -> CreateUserSchema
      [] tool = "delete-user"           -> DeleteUserSchema
      [] tool = "list-realms"           -> ListRealmsSchema
      [] tool = "list-users"            -> ListUsersSchema
      [] tool = "reset-user-password"   -> ResetUserPasswordSchema
      [] tool = "update-client"         -> UpdateClientSchema
      [] tool = "delete-client"         -> DeleteClientSchema
      [] tool = "create-role"           -> CreateRoleSchema
      [] tool = "update-role"           -> UpdateRoleSchema
      [] tool = "delete-role"           -> DeleteRoleSchema
      [] tool = "assign-role-to-user"   -> AssignRoleToUserSchema
      [] tool = "remove-role-from-user" -> RemoveRoleFromUserSchema
      [] tool = "create-group"          -> CreateGroupSchema
      [] tool = "manage-user-groups"    -> ManageUserGroupsSchema
      [] tool = "list-sessions"         -> ListSessionsSchema

\* The body starts with client.setConfig({ realmName: realm }).
SetsRealm(tool) == tool # "list-realms"

\* A call on the admin client.
Call(api, params) == [api |-> api, params |-> params]

\* Variant: the test is clientId !== undefined.
HasClientId_Defined(p) == Get(p, "clientId").t # "undefined"

\* if (clientId): the branch that looks the client up.
HasClientId(p) == Truthy(Get(p, "clientId"))

UsesClientLookup(tool, p) ==
    \/ tool \in {"update-client", "delete-client"}
    \/ /\ tool \in {"create-role", "update-role", "delete-role", "list-sessions"}
       /\ HasClientId(p)
UsesRoleLookup(tool) == tool \in {"assign-role-to-user", "remove-role-from-user"}
UsesLookup(tool, p) == UsesClientLookup(tool, p) \/ UsesRoleLookup(tool)

Lookup(tool, p) ==
    IF UsesRoleLookup(tool)
    THEN Call("roles.findOneByName", [name |-> Get(p, "roleName")])
    ELSE Call("clients.find", [clientId |-> Get(p, "clientId")])

\* What a lookup resolves to: an array of clients, or one role or null
\* (the empty sequence).
Entity(id, name) == [id |-> id, name |-> name]

\* Variants: no test, and the test of the length only.
LookupFails_Never(tool, entities) == FALSE
LookupFails_EmptyOnly(tool, entities) == entities = <<>>

\* clients.length === 0 || !clients[0].id ; !role || !role.id || !role.name
LookupFails(tool, entities) ==
    \/ entities = <<>>
    \/ ~Truthy(entities[1].id)
    \/ UsesRoleLookup(tool) /\ ~Truthy(entities[1].name)

\* `${x}` of a JavaScript value.
Template(x) == IF x.t = "undefined" THEN "undefined" ELSE x.v

NotFound(tool, p) ==
    IF UsesRoleLookup(tool)
    THEN Error("Role " \o Template(Get(p, "roleName")) \o " not found or invalid")
    ELSE Error("Client " \o Template(Get(p, "clientId")) \o " not found or invalid")

\* const { realm, clientId, ...updateData } = parsed
Rest(p, taken) == [k \in DOMAIN p \ taken |-> p[k]]

\* update-role: if (newName) updateData.name = newName; if (description) ...
RoleUpdateData(p) ==
    LET newName == Get(p, "newName")
        description == Get(p, "description")
    IN  [k \in ((IF Truthy(newName) THEN {"name"} ELSE {})
                \cup (IF Truthy(description) THEN {"description"} ELSE {}))
            |-> IF k = "name" THEN newName ELSE description]

\* Variant: temporary = true
TemporaryDefault_True == Bool(TRUE)

\* temporary = false
TemporaryDefault == Bool(FALSE)
Temporary(p) ==
    IF Get(p, "temporary").t = "undefined" THEN TemporaryDefault
    ELSE Get(p, "temporary")

NoParams == [k \in {} |-> Undef]

\* Variant: enabled: false
CreateUserPayload_Disabled(p) ==
    [username |-> Get(p, "username"), email |-> Get(p, "email"),
     firstName |-> Get(p, "firstName"), lastName |-> Get(p, "lastName"),
     enabled |-> Bool(FALSE)]

\* The user representation create-user sends.
CreateUserPayload(p) ==
    [username |-> Get(p, "username"), email |-> Get(p, "email"),
     firstName |-> Get(p, "firstName"), lastName |-> Get(p, "lastName"),
     enabled |-> Bool(TRUE)]

\* Variant: the per-client listing whatever the arguments.
ListSessionsCall_AlwaysPerClient(p, entity) ==
    Call("clients.listSessions", [id |-> entity.id])

\* The session listing of list-sessions, given the looked-up client.
ListSessionsCall(p, entity) ==
    IF HasClientId(p)
    THEN Call("clients.listSessions", [id |-> entity.id])
    ELSE Call("realms.getClientSessionStats", [realm |-> Get(p, "realm")])

\* Variant: a group with a parentId is created as a child of that group.
CreateGroupCall_Child(p) ==
    IF Truthy(Get(p, "parentId"))
    THEN Call("groups.createChildGroup",
              [id |-> Get(p, "parentId"), name |-> Get(p, "name")])
    ELSE Call("groups.create", [name |-> Get(p, "name")])

\* const { realm, name } = CreateGroupSchema.parse(args);
\* client.groups.create({ name })
CreateGroupCall(p) == Call("groups.create", [name |-> Get(p, "name")])

\* The call the body makes after its lookup, or its only call; entity is
\* clients[0] or role when there was a lookup.
MainCall(tool, p, entity) ==
    CASE tool = "create-user" -> Call("users.create", CreateUserPayload(p))
      [] tool = "delete-user" -> Call("users.del", [id |-> Get(p, "userId")])
      [] tool = "list-realms" -> Call("realms.find", NoParams)
      [] tool = "list-users" -> Call("users.find", NoParams)
      [] tool = "reset-user-password" ->
            Call("users.resetPassword",
                 [id |-> Get(p, "userId"),
                  credential |-> [temporary |-> Temporary(p),
                                  type |-> Str("password"),
                                  value |-> Get(p, "newPassword")]])
      [] tool = "update-client" ->
            Call("clients.update",
                 [id |-> entity.id, payload |-> Rest(p, {"realm", "clientId"})])
      [] tool = "delete-client" -> Call("clients.del", [id |-> entity.id])
      [] tool = "create-role" ->
            IF HasClientId(p)
            THEN Call("clients.createRole",
                      [id |-> entity.id, name |-> Get(p, "roleName"),
                       description |-> Get(p, "description")])
            ELSE Call("roles.create",
                      [name |-> Get(p, "roleName"),
                       description |-> Get(p, "description")])
      [] tool = "update-role" ->
            IF HasClientId(p)
            THEN Call("clients.updateRole",
                      [id |-> entity.id, roleName |-> Get(p, "roleName"),
                       payload |-> RoleUpdateData(p)])
            ELSE Call("roles.updateByName",
                      [name |-> Get(p, "roleName"), payload |-> RoleUpdateData(p)])
      [] tool = "delete-role" ->
            IF HasClientId(p)
            THEN Call("clients.delRole",
                      [id |-> entity.id, roleName |-> Get(p, "roleName")])
            ELSE Call("roles.delByName", [name |-> Get(p, "roleName")])
      [] tool = "assign-role-to-user" ->
            Call("users.addRealmRoleMappings",
                 [id |-> Get(p, "userId"),
                  roles |-> << [id |-> entity.id, name |-> entity.name] >>])
      [] tool = "remove-role-from-user" ->
            Call("users.delRealmRoleMappings",
                 [id |-> Get(p, "userId"),
                  roles |-> << [id |-> entity.id, name |-> entity.name] >>])
      [] tool = "create-group" -> CreateGroupCall(p)
      [] tool = "manage-user-groups" ->
            IF Get(p, "action") = Str("add")
            THEN Call("users.addToGroup",
                      [id |-> Get(p, "userId"), groupId |-> Get(p, "groupId")])
            ELSE Call("users.delFromGroup",
                      [id |-> Get(p, "userId"), groupId |-> Get(p, "groupId")])
      [] tool = "list-sessions" -> ListSessionsCall(p, entity)

\* The body returns what its last call resolved to; the others only await it.
ReturnsResult(tool) ==
    tool \in { "create-user", "list-realms", "list-users", "update-client",
               "create-role", "update-role", "create-group", "list-sessions" }

\* Variant: nothing is serialized.
Stringify_Blank(result) == Undef

\* JSON.stringify(result, null, 2) of the values the calls resolve to.
Stringify(result) ==
    CASE result = "undefined" -> Undef
      [] result = "[]" -> Str("[]")
      [] result = "{id: u-1}" -> Str("{\n  \"id\": \"u-1\"\n}")
      [] OTHER -> Undef

\* The text of the case's return { content: [{ type: 'text', text }] }.
SuccessText(tool, p, result) ==
    LET json == Stringify(result)
        realm == Template(Get(p, "realm"))
        userId == Template(Get(p, "userId"))
        roleName == Template(Get(p, "roleName"))
        clientId == Template(Get(p, "clientId"))
    IN  CASE tool = "create-user" ->
                Str("User created successfully: " \o Template(json))
          [] tool = "delete-user" ->
                Str("User " \o userId \o " deleted successfully from realm " \o realm)
          [] tool \in {"list-realms", "list-users", "list-sessions"} -> json
          [] tool = "reset-user-password" ->
                Str("Password reset successfully for user " \o userId
                    \o " in realm " \o realm)
          [] tool = "update-client" ->
                Str("Client " \o clientId \o " updated successfully: " \o Template(json))
          [] tool = "delete-client" ->
                Str("Client " \o clientId \o " deleted successfully from realm " \o realm)
          [] tool = "create-role" ->
                Str("Role created successfully: " \o Template(json))
          [] tool = "update-role" ->
                Str("Role " \o roleName \o " updated successfully: " \o Template(json))
          [] tool = "delete-role" ->
                Str("Role " \o roleName \o " deleted successfully from realm " \o realm)
          [] tool = "assign-role-to-user" ->
                Str("Role " \o roleName \o " assigned to user " \o userId
                    \o " in realm " \o realm)
          [] tool = "remove-role-from-user" ->
                Str("Role " \o roleName \o " removed from user " \o userId
                    \o " in realm " \o realm)
          [] tool = "create-group" ->
                Str("Group created successfully: " \o Template(json))
          [] tool = "manage-user-groups" ->
                Str("User " \o userId \o " "
                    \o (IF Get(p, "action") = Str("add") THEN "added to"
                        ELSE "removed from")
                    \o " group " \o Template(Get(p, "groupId")) \o " in realm " \o realm)

\* ErrorCode.MethodNotFound of the protocol SDK, as it is printed.
MethodNotFound == "-32601"

\* Variant: the name is left out of the message.
UnknownTool_Anonymous(tool) == McpError(MethodNotFound, "Unknown tool")

\* default: throw new McpError(ErrorCode.MethodNotFound, `Unknown tool: ${name}`)
UnknownTool(tool) == McpError(MethodNotFound, "Unknown tool: " \o tool)

\* Variant: the catch wraps whatever it receives.
HandlerCatch_WrapsAll(e) ==
    McpError(InternalError, "Tool execution failed: " \o
        (IF instanceofError(e) THEN e.message ELSE "Unknown error"))

\* The handler's catch: an McpError is rethrown, anything else is wrapped.
HandlerCatch(e) ==
    IF instanceofMcpError(e) THEN e
    ELSE McpError(InternalError, "Tool execution failed: " \o
            (IF instanceofError(e) THEN e.message ELSE "Unknown error"))

\* What the case destructures from its parse; list-realms reads nothing.
ParsedOf(r) ==
    IF r.name \in ModelledTools /\ ParsesArgs(r.name)
    THEN Parsed(SchemaOf(r.name), r.args)
    ELSE NoParams

(***************************************************************************)
(* Tool calls: the requests, lookup results and failures explored.         *)
(***************************************************************************)
Request(name, args) == [name |-> name, args |-> args]

Demo == [realm |-> Str("demo")]
Alice ==
    [realm |-> Str("demo"), username |-> Str("alice"),
     email |-> Str("alice@example.org"), firstName |-> Str("Alice"),
     lastName |-> Str("Liddell")]
John ==
    [realm |-> Str("master"), username |-> Str("john.doe"),
     email |-> Str("john@example.com"), firstName |-> Str("John"),
     lastName |-> Str("Doe")]
OfUser == [realm |-> Str("demo"), userId |-> Str("u-1")]
NewPassword == [realm |-> Str("acme"), userId |-> Str("u-1"), newPassword |-> Str("s3cret")]
Membership == [realm |-> Str("demo"), userId |-> Str("u-1"), groupId |-> Str("g-1")]

ValidRequests ==
    { Request("create-user", Alice),
      Request("create-user", John),
      Request("delete-user", OfUser),
      Request("list-realms", NoParams),
      Request("list-realms", [random_string |-> Str("x")]),
      Request("list-users", Demo),
      Request("reset-user-password", NewPassword),
      Request("reset-user-password", [NewPassword EXCEPT !.realm = Str("demo")]
                                     @@ [temporary |-> Bool(TRUE)]),
      Request("reset-user-password", NewPassword @@ [temporary |-> Bool(FALSE)]),
      Request("update-client", Demo @@ [clientId |-> Str("web"), name |-> Str("Web")]),
      Request("update-client", Demo @@ [clientId |-> Str("ssl-gateway"),
                                        enabled |-> Bool(FALSE)]),
      Request("delete-client", Demo @@ [clientId |-> Str("web")]),
      Request("delete-client", Demo @@ [clientId |-> Str("")]),
      Request("create-role", Demo @@ [roleName |-> Str("admin")]),
      Request("create-role", Demo @@ [roleName |-> Str("admin"),
                                      description |-> Str("Administrators"),
                                      clientId |-> Str("web")]),
      Request("create-role", Demo @@ [roleName |-> Str("admin"), clientId |-> Str("")]),
      Request("update-role", Demo @@ [roleName |-> Str("admin"), newName |-> Str("root")]),
      Request("update-role", Demo @@ [roleName |-> Str("admin"), description |-> Str(""),
                                      clientId |-> Str("web")]),
      Request("update-role", Demo @@ [roleName |-> Str("admin"), newName |-> Str("root"),
                                      clientId |-> Str("")]),
      Request("delete-role", Demo @@ [roleName |-> Str("admin")]),
      Request("delete-role", Demo @@ [roleName |-> Str("admin"), clientId |-> Str("")]),
      Request("delete-role", Demo @@ [roleName |-> Str("admin"),
                                      clientId |-> Str("timeout-proxy")]),
      Request("assign-role-to-user", OfUser @@ [roleName |-> Str("admin")]),
      Request("assign-role-to-user", OfUser @@ [roleName |-> Str("unauthorized-guest")]),
      Request("remove-role-from-user", OfUser @@ [roleName |-> Str("admin")]),
      Request("create-group", Demo @@ [name |-> Str("staff")]),
      Request("create-group", Demo @@ [name |-> Str("staff"), parentId |-> Str("g-1")]),
      Request("manage-user-groups", Membership @@ [action |-> Str("add")]),
      Request("manage-user-groups", Membership @@ [action |-> Str("remove")]),
      Request("list-sessions", Demo),
      Request("list-sessions", [realm |-> Str("acme"), clientId |-> Str("web")]),
      Request("list-sessions", Demo @@ [clientId |-> Str("")]),
      Request("list-sessions", Demo @@ [clientId |-> Str("ssl-gateway")]) }

\* Argument bags that violate the shape the tool declares.
InvalidRequests ==
    { Request("create-user", [Alice EXCEPT !.email = Str("alice")]),
      Request("create-user", [k \in DOMAIN Alice \ {"username"} |-> Alice[k]]),
      Request("create-user", [Alice EXCEPT !.realm = Num("7")]),
      Request("delete-user", Demo),
      Request("list-realms", [random_string |-> Num("42")]),
      Request("list-users", NoParams),
      Request("reset-user-password", NewPassword @@ [temporary |-> Str("yes")]),
      Request("reset-user-password", OfUser),
      Request("update-client", Demo @@ [clientId |-> Str("web"), enabled |-> Str("no")]),
      Request("delete-client", Demo),
      Request("create-role", Demo @@ [roleName |-> Str("admin"), clientId |-> Num("5")]),
      Request("update-role", Demo),
      Request("delete-role", [roleName |-> Str("admin")]),
      Request("assign-role-to-user", OfUser),
      Request("remove-role-from-user", OfUser @@ [roleName |-> Bool(TRUE)]),
      Request("create-group", Demo),
      Request("manage-user-groups", Membership @@ [action |-> Str("toggle")]),
      Request("list-sessions", Demo @@ [clientId |-> Num("5")]) }

\* Names the switch has no case for.
UnknownRequests ==
    { Request("drop-database", Demo), Request("Create-User", Alice),
      Request("", NoParams) }

Requests == ValidRequests \cup InvalidRequests \cup UnknownRequests

\* What clients.find and roles.findOneByName can resolve to.
ClientsFound ==
    { <<>>, << Entity(Undef, Str("web")) >>, << Entity(Str(""), Str("web")) >>,
      << Entity(Str("c-77"), Str("web")) >>,
      << Entity(Str("c-77"), Str("web")), Entity(Str("c-78"), Str("web")) >> }
RolesFound ==
    { <<>>, << Entity(Undef, Str("admin")) >>, << Entity(Str("r-9"), Undef) >>,
      << Entity(Str("r-9"), Str("admin")) >> }
LookupResults(tool) == IF UsesRoleLookup(tool) THEN RolesFound ELSE ClientsFound

\* The not-found errors the bodies can throw on these requests.
NotFoundFailures ==
    { NotFound(r.name, ParsedOf(r)) :
        r \in { q \in ValidRequests : UsesLookup(q.name, ParsedOf(q)) } }

(***************************************************************************)
(* State.                                                                  *)
(***************************************************************************)
VARIABLES
    pc,          \* per request: where its executeOperation call stands
    attempt,     \* createFreshClient: the loop variable
    lastError,   \* createFreshClient: lastError
    fresh,       \* createFreshClient: the `client` of the current attempt
    client,      \* executeOperation: its `client` local
    outcome,     \* what executeOperation returned or threw to its caller
    nextClient,  \* number of KcAdminClient objects constructed so far
    \* Observations of one request, kept for stating properties:
    authLog,     \* createFreshClient: the rejections of client.auth, in order
    built,       \* the clients constructed, in order
    authCalls,   \* number of client.auth calls
    authThrown,  \* what createFreshClient threw (NoError if nothing)
    authReturned,\* the client createFreshClient returned (NoClient if none)
    slept,       \* the waits taken, in order (ms)
    bodyCalls,   \* number of invocations of the operation body
    bodyEnd,     \* how the operation body ended
    \* The tool-call handler:
    request,     \* per request: request.params (name, arguments)
    pending,     \* the call the operation body awaits: none, lookup or main
    found,       \* what the body's lookup resolved to
    calls,       \* the calls the body made on its client, in order
    realmName,   \* per client: the realm setConfig left it on
    response,    \* what the handler returned or threw to the protocol layer
    \* The process:
    process,     \* starting (main awaits server.connect), running or exited
    failures     \* number of tool calls answered with an error so far

vars == <<pc, attempt, lastError, fresh, client, outcome, nextClient,
          authLog, built, authCalls, authThrown, authReturned, slept, bodyCalls, bodyEnd,
          request, pending, found, calls, realmName, response, process, failures>>

\* The variables of the tool-call handler and of the process around it.
hvars == <<request, pending, found, calls, realmName, response, process, failures>>

\* main(): awaiting server.connect, connected, or gone through process.exit.
NoExitCode == -1
Starting == [state |-> "starting", code |-> NoExitCode]
Running == [state |-> "running", code |-> NoExitCode]
Exited(code) == [state |-> "exited", code |-> code]

NoRequest == [name |-> NoValue, args |-> NoParams]
NotLooked == [resolved |-> FALSE, entities |-> <<>>]
Looked(entities) == [resolved |-> TRUE, entities |-> entities]
NoResponse == [kind |-> "none", text |-> Undef, error |-> NoError]
Result(text) == [kind |-> "result", text |-> text, error |-> NoError]
Failure(e) == [kind |-> "error", text |-> Undef, error |-> e]

\* The names of the client objects that can come to exist: every request
\* admitted below MaxClients constructs at most maxRetries of them.
ClientIds == 1..(MaxClients + maxRetries * Cardinality(Ops))

\* new KcAdminClient(...) starts on the library's default realm.
DefaultRealm == "master"

NoOutcome == [kind |-> "none", value |-> NoValue, error |-> NoError]
Returned(v) == [kind |-> "return", value |-> v, error |-> NoError]
Threw(e) == [kind |-> "throw", value |-> NoValue, error |-> e]

Init ==
    /\ pc = [o \in Ops |-> "idle"]
    /\ attempt = [o \in Ops |-> 0]
    /\ lastError = [o \in Ops |-> NoError]
    /\ fresh = [o \in Ops |-> NoClient]
    /\ client = [o \in Ops |-> NoClient]
    /\ outcome = [o \in Ops |-> NoOutcome]
    /\ nextClient = 0
    /\ authLog = [o \in Ops |-> <<>>]
    /\ built = [o \in Ops |-> <<>>]
    /\ authCalls = [o \in Ops |-> 0]
    /\ authThrown = [o \in Ops |-> NoError]
    /\ authReturned = [o \in Ops |-> NoClient]
    /\ slept = [o \in Ops |-> <<>>]
    /\ bodyCalls = [o \in Ops |-> 0]
    /\ bodyEnd = [o \in Ops |-> NoOutcome]
    /\ request = [o \in Ops |-> NoRequest]
    /\ pending = [o \in Ops |-> "none"]
    /\ found = [o \in Ops |-> NotLooked]
    /\ calls = [o \in Ops |-> <<>>]
    /\ realmName = [c \in ClientIds |-> DefaultRealm]
    /\ response = [o \in Ops |-> NoResponse]
    /\ process = Starting
    /\ failures = 0

(***************************************************************************)
(* executeOperation and createFreshClient, cut at their awaits.            *)
(***************************************************************************)
\* Variant: the first failure is kept.
AssignLastError_KeepFirst(old, e) == IF old = NoError THEN CaughtAsError(e) ELSE old

\* catch (error) { lastError = ... }: the assignment overwrites lastError.
AssignLastError(old, e) == CaughtAsError(e)

\* Variant: the reference is left in place.
Finally_Keeps(c) == c

\* finally { client = null }
Finally(c) == NoClient

\* Variant: the result is wrapped.
ReturnResult_Wrapped(result) == "{result: " \o result \o "}"

\* return result
ReturnResult(result) == result

\* The catch block on the values the inputs above can make it receive,
\* evaluated once; CatchBlockOn(e) = CatchBlock(e) for every e.
ExpectedCaught ==
    OperationFailures \cup { AllAttemptsFailed(CaughtAsError(e)) : e \in AuthFailures }
        \cup NotFoundFailures
CatchBlockTable == { <<e, CatchBlock(e)>> : e \in ExpectedCaught }
CatchBlockOn(e) ==
    IF e \in ExpectedCaught
    THEN (CHOOSE row \in CatchBlockTable : row[1] = e)[2]
    ELSE CatchBlock(e)

\* Variant: a retry authenticates the client of the attempt before it.
NewClient_Reused(n) == IF n = 0 THEN 1 ELSE n

\* Variant: one client object is kept and handed out again.
NewClient_Shared(n) == 1

\* Variant: two client objects are kept and handed out in turn.
NewClient_Pooled(n) == (n % 2) + 1

\* new KcAdminClient(...): an object distinct from the n constructed before.
NewClient(n) == n + 1

\* executeOperation ends by throwing from its catch block, through finally.
ExecuteThrows(o, caught) ==
    /\ outcome' = [outcome EXCEPT ![o] = Threw(CatchBlockOn(caught))]
    /\ client' = [client EXCEPT ![o] = Finally(client[o])]
    /\ pc' = [pc EXCEPT ![o] = "done"]

\* The for loop of createFreshClient entered at its test with attempt = a and
\* lastError = le: either one more attempt (construct a client, call
\* client.auth, suspend) or, past the loop, the throw that executeOperation's
\* own catch block receives.
LoopTest(o, a, le) ==
    /\ attempt' = [attempt EXCEPT ![o] = a]
    /\ IF LoopContinues(a)
       THEN /\ nextClient' = nextClient + 1
            /\ fresh' = [fresh EXCEPT ![o] = NewClient(nextClient)]
            /\ built' = [built EXCEPT ![o] = Append(@, NewClient(nextClient))]
            /\ authCalls' = [authCalls EXCEPT ![o] = @ + 1]
            /\ pc' = [pc EXCEPT ![o] = "auth"]
            /\ UNCHANGED <<authThrown, outcome, client>>
       ELSE /\ authThrown' = [authThrown EXCEPT ![o] = AllAttemptsFailed(le)]
            /\ fresh' = [fresh EXCEPT ![o] = NoClient]
            /\ ExecuteThrows(o, AllAttemptsFailed(le))
            /\ UNCHANGED <<nextClient, authCalls, built>>

\* A request reaches executeOperation: client = null, then createFreshClient
\* runs up to the first await client.auth(...).
ExecuteOperation(o) ==
    /\ process = Running
    /\ pc[o] = "idle"
    /\ nextClient + maxRetries <= MaxClients
    /\ lastError' = [lastError EXCEPT ![o] = NoError]
    /\ LoopTest(o, 1, NoError)
    /\ UNCHANGED <<authLog, authReturned, slept, bodyCalls, bodyEnd>>

\* client.auth resolves: createFreshClient returns the client of this attempt,
\* executeOperation stores it and invokes the operation body with it.
AuthResolves(o) ==
    /\ pc[o] = "auth"
    /\ authReturned' = [authReturned EXCEPT ![o] = fresh[o]]
    /\ client' = [client EXCEPT ![o] = fresh[o]]
    /\ fresh' = [fresh EXCEPT ![o] = NoClient]
    /\ bodyCalls' = [bodyCalls EXCEPT ![o] = @ + 1]
    /\ pc' = [pc EXCEPT ![o] = "body"]
    /\ lastError' = [lastError EXCEPT ![o] = NoError]
    /\ attempt' = [attempt EXCEPT ![o] = 0]
    /\ authLog' = [authLog EXCEPT ![o] = <<>>]
    /\ UNCHANGED <<outcome, nextClient, built, authCalls, authThrown, slept, bodyEnd>>

\* client.auth rejects with e: the catch clause of the loop body.
AuthRejects(o, e) ==
    /\ pc[o] = "auth"
    /\ authLog' = [authLog EXCEPT ![o] = Append(@, e)]
    /\ lastError' = [lastError EXCEPT ![o] = AssignLastError(lastError[o], e)]
    /\ IF WaitsAfter(attempt[o])
       THEN /\ slept' = [slept EXCEPT ![o] = Append(@, waitTime(attempt[o]))]
            /\ fresh' = [fresh EXCEPT ![o] = NoClient]
            /\ pc' = [pc EXCEPT ![o] = "sleep"]
            /\ UNCHANGED <<attempt, client, outcome, nextClient, authCalls,
                           authThrown, built>>
       ELSE /\ LoopTest(o, attempt[o] + 1, AssignLastError(lastError[o], e))
            /\ UNCHANGED slept
    /\ UNCHANGED <<authReturned, bodyCalls, bodyEnd>>

\* The backoff timer fires: attempt++ and the loop test.
TimerFires(o) ==
    /\ pc[o] = "sleep"
    /\ LoopTest(o, attempt[o] + 1, lastError[o])
    /\ UNCHANGED <<lastError, authLog, authReturned, slept, bodyCalls, bodyEnd>>

\* The operation body resolves with v: return result, through finally.
BodyResolves(o, v) ==
    /\ pc[o] = "body"
    /\ bodyEnd' = [bodyEnd EXCEPT ![o] = Returned(v)]
    /\ outcome' = [outcome EXCEPT ![o] = Returned(ReturnResult(v))]
    /\ client' = [client EXCEPT ![o] = Finally(client[o])]
    /\ pc' = [pc EXCEPT ![o] = "done"]
    /\ UNCHANGED <<attempt, lastError, fresh, nextClient, authLog, built,
                   authCalls, authThrown, authReturned, slept, bodyCalls>>

\* Variant: a failed operation body makes the whole call start over.
BodyRejects_Retries(o, e) ==
    /\ pc[o] = "body"
    /\ bodyEnd' = [bodyEnd EXCEPT ![o] = Threw(e)]
    /\ LoopTest(o, 1, NoError)
    /\ UNCHANGED <<lastError, authLog, authReturned, slept, bodyCalls>>

\* The operation body rejects with e: the catch block, through finally.
BodyRejects(o, e) ==
    /\ pc[o] = "body"
    /\ bodyEnd' = [bodyEnd EXCEPT ![o] = Threw(e)]
    /\ ExecuteThrows(o, e)
    /\ UNCHANGED <<attempt, lastError, fresh, nextClient, authLog, built,
                   authCalls, authThrown, authReturned, slept, bodyCalls>>

\* The frames of the call are gone.
FramesGone(o) ==
    /\ pc' = [pc EXCEPT ![o] = "idle"]
    /\ attempt' = [attempt EXCEPT ![o] = 0]
    /\ lastError' = [lastError EXCEPT ![o] = NoError]
    /\ fresh' = [fresh EXCEPT ![o] = NoClient]
    /\ client' = [client EXCEPT ![o] = NoClient]
    /\ outcome' = [outcome EXCEPT ![o] = NoOutcome]
    /\ authLog' = [authLog EXCEPT ![o] = <<>>]
    /\ built' = [built EXCEPT ![o] = <<>>]
    /\ authCalls' = [authCalls EXCEPT ![o] = 0]
    /\ authThrown' = [authThrown EXCEPT ![o] = NoError]
    /\ authReturned' = [authReturned EXCEPT ![o] = NoClient]
    /\ slept' = [slept EXCEPT ![o] = <<>>]
    /\ bodyCalls' = [bodyCalls EXCEPT ![o] = 0]
    /\ bodyEnd' = [bodyEnd EXCEPT ![o] = NoOutcome]
    /\ UNCHANGED nextClient

\* The caller has received the outcome.
Respond(o) ==
    /\ pc[o] = "done"
    /\ FramesGone(o)

\* server.connect(transport) resolves: the server is running on stdio.
Connects ==
    /\ process = Starting
    /\ process' = Running
    /\ UNCHANGED <<pc, attempt, lastError, fresh, client, outcome, nextClient,
                   authLog, built, authCalls, authThrown, authReturned, slept,
                   bodyCalls, bodyEnd, request, pending, found, calls, realmName,
                   response, failures>>

\* server.connect(transport) rejects: main().catch(...) calls process.exit(1).
ConnectFails ==
    /\ process = Starting
    /\ process' = Exited(1)
    /\ UNCHANGED <<pc, attempt, lastError, fresh, client, outcome, nextClient,
                   authLog, built, authCalls, authThrown, authReturned, slept,
                   bodyCalls, bodyEnd, request, pending, found, calls, realmName,
                   response, failures>>

\* executeOperation called with an opaque operation body.
Next ==
    \/ Connects
    \/ ConnectFails
    \/ \E o \in Ops : ExecuteOperation(o) /\ UNCHANGED hvars
    \/ \E o \in Ops : AuthResolves(o) /\ UNCHANGED hvars
    \/ \E o \in Ops, e \in AuthFailures : AuthRejects(o, e) /\ UNCHANGED hvars
    \/ \E o \in Ops : TimerFires(o) /\ UNCHANGED hvars
    \/ \E o \in Ops, v \in Results : BodyResolves(o, v) /\ UNCHANGED hvars
    \/ \E o \in Ops, e \in OperationFailures : BodyRejects(o, e) /\ UNCHANGED hvars
    \/ \E o \in Ops : Respond(o) /\ UNCHANGED hvars

Spec == Init /\ [][Next]_vars

(***************************************************************************)
(* The tool-call handler, cut at its awaits.                               *)
(***************************************************************************)
\* A call as it is made: on which client, set on which realm.
Made(call, c, realm) ==
    [api |-> call.api, params |-> call.params, on |-> c, realm |-> realm]

NoEntity == Entity(Undef, Undef)

\* Variant: a tool call that fails takes the process down.
OnFailure_Exits(pr) == Exited(1)

\* throw error / throw new McpError(...) in the handler's catch: the promise
\* of the handler rejects, the process goes on.
OnFailure(pr) == pr

\* One more tool call answered with an error (counted up to MaxFailures).
CountFailure(n) == IF n < MaxFailures THEN n + 1 ELSE n

\* The handler throws e without having reached executeOperation.
HandlerThrows(o, e) ==
    /\ response' = [response EXCEPT ![o] = Failure(HandlerCatch(e))]
    /\ process' = OnFailure(process)
    /\ failures' = CountFailure(failures)
    /\ pc' = [pc EXCEPT ![o] = "replied"]
    /\ UNCHANGED <<attempt, lastError, fresh, client, outcome, nextClient,
                   authLog, built, authCalls, authThrown, authReturned, slept,
                   bodyCalls, bodyEnd>>

\* A tools/call request arrives: the switch, the parse and the start of
\* executeOperation up to its first await.
CallTool(o, r) ==
    /\ process = Running
    /\ pc[o] = "idle"
    /\ request' = [request EXCEPT ![o] = r]
    /\ UNCHANGED <<pending, found, calls, realmName>>
    /\ IF r.name \notin HandledTools
       THEN HandlerThrows(o, UnknownTool(r.name))
       ELSE IF ParsesArgs(r.name) /\ ~Parses(SchemaOf(r.name), r.args)
       THEN HandlerThrows(o, ZodError(SchemaOf(r.name), r.args))
       ELSE ExecuteOperation(o) /\ UNCHANGED <<response, process, failures>>

\* client.auth resolves and the operation body runs up to its first await:
\* setConfig, then the lookup or the only call.
BodyStarts(o) ==
    /\ AuthResolves(o)
    /\ LET tool == request[o].name
           p == ParsedOf(request[o])
           c == fresh[o]
           realm == IF SetsRealm(tool) THEN Template(Get(p, "realm")) ELSE realmName[c]
           first == IF UsesLookup(tool, p) THEN Lookup(tool, p)
                    ELSE MainCall(tool, p, NoEntity)
       IN  /\ realmName' = [realmName EXCEPT ![c] = realm]
           /\ calls' = [calls EXCEPT ![o] = Append(@, Made(first, c, realm))]
           /\ pending' = [pending EXCEPT ![o] =
                             IF UsesLookup(tool, p) THEN "lookup" ELSE "main"]
    /\ UNCHANGED <<request, found, response, process, failures>>

\* The lookup resolves: the not-found throw, or the follow-up call.
LookupResolves(o, entities) ==
    /\ pc[o] = "body"
    /\ pending[o] = "lookup"
    /\ found' = [found EXCEPT ![o] = Looked(entities)]
    /\ LET tool == request[o].name
           p == ParsedOf(request[o])
       IN  IF LookupFails(tool, entities)
           THEN /\ BodyRejects(o, NotFound(tool, p))
                /\ pending' = [pending EXCEPT ![o] = "none"]
                /\ UNCHANGED calls
           ELSE /\ calls' = [calls EXCEPT ![o] =
                      Append(@, Made(MainCall(tool, p, entities[1]),
                                     client[o], realmName[client[o]]))]
                /\ pending' = [pending EXCEPT ![o] = "main"]
                /\ UNCHANGED <<pc, attempt, lastError, fresh, client, outcome,
                               nextClient, authLog, built, authCalls, authThrown,
                               authReturned, slept, bodyCalls, bodyEnd>>
    /\ UNCHANGED <<request, realmName, response, process, failures>>

\* The body's last call resolves with v.
CallResolves(o, v) ==
    /\ pending[o] = "main"
    /\ BodyResolves(o, IF ReturnsResult(request[o].name) THEN v ELSE "undefined")
    /\ pending' = [pending EXCEPT ![o] = "none"]
    /\ UNCHANGED <<request, found, calls, realmName, response, process, failures>>

\* The call the body awaits rejects with e.
CallRejects(o, e) ==
    /\ pending[o] # "none"
    /\ BodyRejects(o, e)
    /\ pending' = [pending EXCEPT ![o] = "none"]
    /\ UNCHANGED <<request, found, calls, realmName, response, process, failures>>

\* Variant: the case returns its text whatever executeOperation did.
Continues_Always(oc) == TRUE

\* await adminManager.executeOperation(...): the case goes on to its return
\* only when the promise resolved.
Continues(oc) == oc.kind = "return"

\* executeOperation has returned or thrown: the case's return, or the catch.
HandlerReturns(o) ==
    /\ pc[o] = "done"
    /\ response' = [response EXCEPT ![o] =
          IF Continues(outcome[o])
          THEN Result(SuccessText(request[o].name, ParsedOf(request[o]),
                                  outcome[o].value))
          ELSE Failure(HandlerCatch(outcome[o].error))]
    /\ process' = (IF Continues(outcome[o]) THEN process ELSE OnFailure(process))
    /\ failures' = (IF Continues(outcome[o]) THEN failures
                    ELSE CountFailure(failures))
    /\ pc' = [pc EXCEPT ![o] = "replied"]
    /\ UNCHANGED <<attempt, lastError, fresh, client, outcome, nextClient,
                   authLog, built, authCalls, authThrown, authReturned, slept,
                   bodyCalls, bodyEnd, request, pending, found, calls, realmName>>

\* The protocol layer has sent the response; the request and the clients
\* it constructed are garbage.
Deliver(o) ==
    /\ pc[o] = "replied"
    /\ FramesGone(o)
    /\ request' = [request EXCEPT ![o] = NoRequest]
    /\ pending' = [pending EXCEPT ![o] = "none"]
    /\ found' = [found EXCEPT ![o] = NotLooked]
    /\ calls' = [calls EXCEPT ![o] = <<>>]
    /\ realmName' = [c \in DOMAIN realmName |->
          IF \E i \in 1..Len(built[o]) : built[o][i] = c
          THEN DefaultRealm ELSE realmName[c]]
    /\ response' = [response EXCEPT ![o] = NoResponse]
    /\ UNCHANGED <<process, failures>>

\* One request at a time through the handler.
ToolOps == {"t1"}

ToolNext ==
    \/ Connects
    \/ ConnectFails
    \/ \E o \in ToolOps, r \in Requests : CallTool(o, r)
    \/ \E o \in ToolOps : BodyStarts(o)
    \/ \E o \in ToolOps, e \in AuthFailures : AuthRejects(o, e) /\ UNCHANGED hvars
    \/ \E o \in ToolOps : TimerFires(o) /\ UNCHANGED hvars
    \/ \E o \in ToolOps : \E entities \in LookupResults(request[o].name) :
            LookupResolves(o, entities)
    \/ \E o \in ToolOps, v \in Results : CallResolves(o, v)
    \/ \E o \in ToolOps, e \in OperationFailures : CallRejects(o, e)
    \/ \E o \in ToolOps : HandlerReturns(o)
    \/ \E o \in ToolOps : Deliver(o)

ToolSpec == Init /\ [][ToolNext]_vars

\* What the event loop guarantees of the program's own steps: a settled
\* server.connect is handled, a timer that was set fires, and a handler
\* whose executeOperation has settled returns or throws and is answered.
\* Nothing makes client.auth or an admin call settle.
ProgramFairness ==
    /\ WF_vars(Connects \/ ConnectFails)
    /\ \A o \in ToolOps :
          /\ WF_vars(TimerFires(o) /\ UNCHANGED hvars)
          /\ WF_vars(HandlerReturns(o))
          /\ WF_vars(Deliver(o))

\* The handler when the identity server may never answer.
HangSpec == ToolSpec /\ ProgramFairness

\* client.auth settles; the admin call the body awaits settles.
AuthSettles(o) ==
    \/ BodyStarts(o)
    \/ \E e \in AuthFailures : AuthRejects(o, e) /\ UNCHANGED hvars
CallSettles(o) ==
    \/ \E entities \in LookupResults(request[o].name) : LookupResolves(o, entities)
    \/ \E v \in Results : CallResolves(o, v)
    \/ \E e \in OperationFailures : CallRejects(o, e)

\* Every authentication request and every admin call eventually settles.
ServerFairness ==
    \A o \in ToolOps : WF_vars(AuthSettles(o)) /\ WF_vars(CallSettles(o))

\* The handler when the identity server always answers.
ResponsiveSpec == ToolSpec /\ ProgramFairness /\ ServerFairness

\* Tool calls in flight together, on a few requests and failures.
ConcRequests ==
    { Request("list-users", Demo),
      Request("list-sessions", [realm |-> Str("acme"), clientId |-> Str("web")]),
      Request("delete-user", Demo) }
ConcAuthFailures == { Error("connect ECONNREFUSED 127.0.0.1:8080") }
ConcFailures == { Error("Request failed with status code 403") }
ConcFound == { <<>>, << Entity(Str("c-77"), Str("web")) >> }
ConcResults == { "[]" }

ConcNext ==
    \/ Connects
    \/ ConnectFails
    \/ \E o \in Ops, r \in ConcRequests : CallTool(o, r)
    \/ \E o \in Ops : BodyStarts(o)
    \/ \E o \in Ops, e \in ConcAuthFailures : AuthRejects(o, e) /\ UNCHANGED hvars
    \/ \E o \in Ops : TimerFires(o) /\ UNCHANGED hvars
    \/ \E o \in Ops, entities \in ConcFound : LookupResolves(o, entities)
    \/ \E o \in Ops, v \in ConcResults : CallResolves(o, v)
    \/ \E o \in Ops, e \in ConcFailures : CallRejects(o, e)
    \/ \E o \in Ops : HandlerReturns(o)
    \/ \E o \in Ops : Deliver(o)

ConcSpec == Init /\ [][ConcNext]_vars

(***************************************************************************)
(* Vocabulary of the properties.                                           *)
(***************************************************************************)
\* The request's executeOperation call has completed, its outcome not yet
\* consumed by the caller.
Done(o) == pc[o] = "done"

\* createFreshClient failed / succeeded in this request.
SessionFailed(o) == authThrown[o] # NoError
SessionCreated(o) == authReturned[o] # NoClient

\* The value executeOperation's catch block received in this request.
Caught(o) == IF SessionFailed(o) THEN authThrown[o] ELSE bodyEnd[o].error

\* executeOperation ended by throwing after catching something.
Failed(o) == Done(o) /\ outcome[o].kind = "throw"

\* The ordered table of (patterns, category) rows.
ClassificationTable ==
    << [patterns |-> {"network response was not ok"},
        category |-> "connection-unavailable"],
       [patterns |-> {"401", "unauthorized"},
        category |-> "authentication-failed"],
       [patterns |-> {"timeout", "etimedout", "econnreset"},
        category |-> "timeout-or-reset"],
       [patterns |-> {"econnrefused", "enotfound"},
        category |-> "unreachable-host"],
       [patterns |-> {"403", "forbidden"},
        category |-> "access-denied"],
       [patterns |-> {"ssl", "certificate", "handshake"},
        category |-> "tls-error"] >>

Generic == "generic-operation-failure"

\* The patterns of the table that occur in the lowercased message m.
AllPatterns ==
    UNION { ClassificationTable[i].patterns : i \in 1..Len(ClassificationTable) }
PatternsOf(m) == { p \in AllPatterns : includes(toLowerCase(m), p) }

\* PatternsOf on the failure messages of the model, evaluated once;
\* PatternsIn(m) = PatternsOf(m) for every m.
MessagesSeen ==
    FailureMessages \cup { AllAttemptsFailed(CaughtAsError(e)).message : e \in AuthFailures }
        \cup { e.message : e \in NotFoundFailures }
PatternsTable == { <<m, PatternsOf(m)>> : m \in MessagesSeen }
PatternsIn(m) ==
    IF m \in MessagesSeen
    THEN (CHOOSE row \in PatternsTable : row[1] = m)[2]
    ELSE PatternsOf(m)

RowMatches(i, m) == ClassificationTable[i].patterns \cap PatternsIn(m) # {}

\* The category of the first row of the table that matches, top to bottom.
FirstMatch(m) ==
    LET hits == { i \in 1..Len(ClassificationTable) : RowMatches(i, m) }
    IN  IF hits = {} THEN Generic
        ELSE ClassificationTable[CHOOSE i \in hits : \A j \in hits : i <= j].category

\* The message the caller reads for each category other than the generic one.
CategoryMessage ==
    [c \in { ClassificationTable[i].category : i \in 1..Len(ClassificationTable) } |->
        CASE c = "connection-unavailable" -> MsgConnection
          [] c = "authentication-failed"  -> MsgAuthentication
          [] c = "timeout-or-reset"       -> MsgTimeout
          [] c = "unreachable-host"       -> MsgUnreachable
          [] c = "access-denied"          -> MsgAccessDenied
          [] c = "tls-error"              -> MsgTls]

\* The category a thrown error presents to the caller.
CategoryOf(error) ==
    IF \E c \in DOMAIN CategoryMessage :
            error = McpError(InternalError, CategoryMessage[c])
    THEN CHOOSE c \in DOMAIN CategoryMessage :
            error = McpError(InternalError, CategoryMessage[c])
    ELSE Generic

(***************************************************************************)
(* C1.  When session creation fails, the error leaving executeOperation    *)
(* is the error createFreshClient threw, unchanged.  The code catches it   *)
(* in executeOperation's own catch block and throws a new error.           *)
(***************************************************************************)
C1_AuthErrorPropagatesUnchanged ==
    \A o \in Ops :
        (Done(o) /\ SessionFailed(o)) => outcome[o] = Threw(authThrown[o])

(***************************************************************************)
(* C2.  The category of every failure of executeOperation is the category  *)
(* of the first row of the ordered table that matches the lowercased       *)
(* message of the caught Error; a caught value that is no Error has no     *)
(* message and is a generic failure.                                       *)
(***************************************************************************)
C2_FirstMatchingRowWins ==
    \A o \in Ops :
        Failed(o) =>
            IF instanceofError(Caught(o))
            THEN CategoryOf(outcome[o].error) = FirstMatch(Caught(o).message)
            ELSE CategoryOf(outcome[o].error) = Generic

\* A message matching rows 4 and 5 was classified by row 4.
C2_Witness ==
    \E o \in Ops :
        /\ Failed(o)
        /\ bodyEnd[o].error = Error("ECONNREFUSED: 403 Forbidden")
        /\ CategoryOf(outcome[o].error) = "unreachable-host"

(***************************************************************************)
(* C3.  As claimed: every failure message containing "401" or              *)
(* "unauthorized" (any case) is classified authentication-failed,          *)
(* whatever else it contains.                                              *)
(***************************************************************************)
Mentions401(m) == "401" \in PatternsIn(m) \/ "unauthorized" \in PatternsIn(m)

C3_Always401 ==
    \A o \in Ops :
        (Failed(o) /\ instanceofError(Caught(o)) /\ Mentions401(Caught(o).message))
            => CategoryOf(outcome[o].error) = "authentication-failed"

(***************************************************************************)
(* C3, amended.  A failure message containing "401" or "unauthorized" is   *)
(* classified authentication-failed whatever later rows it also matches,   *)
(* unless it contains "network response was not ok", in which case it is   *)
(* classified connection-unavailable.                                      *)
(***************************************************************************)
C3_401UnlessNetwork ==
    \A o \in Ops :
        (Failed(o) /\ instanceofError(Caught(o)) /\ Mentions401(Caught(o).message))
            => CategoryOf(outcome[o].error) =
                  IF "network response was not ok" \in PatternsIn(Caught(o).message)
                  THEN "connection-unavailable"
                  ELSE "authentication-failed"

\* A message with "401", "unauthorized" and "timeout" was classified
\* authentication-failed.
C3_Witness ==
    \E o \in Ops :
        /\ Failed(o)
        /\ bodyEnd[o].error = Error("HTTP 401 Unauthorized: request timeout")
        /\ CategoryOf(outcome[o].error) = "authentication-failed"

(***************************************************************************)
(* C4.  One executeOperation call (one tool call) makes at least 1 and at  *)
(* most 2 authentication attempts, and an attempt after the first is made  *)
(* only when every earlier attempt was rejected.                           *)
(***************************************************************************)
C4_AtMostTwoAttempts ==
    \A o \in Ops :
        /\ authCalls[o] <= 2
        /\ pc[o] # "idle" => authCalls[o] >= 1
        /\ (pc[o] \in {"auth", "sleep"} \/ SessionFailed(o))
               => authCalls[o] <= Len(authLog[o]) + 1
        /\ SessionCreated(o) => authCalls[o] = Len(slept[o]) + 1

\* A second attempt is under way after the first was rejected.
C4_Witness ==
    \E o \in Ops : pc[o] = "auth" /\ authCalls[o] = 2 /\ Len(authLog[o]) = 1

(***************************************************************************)
(* C5.  After failed attempt k the wait before attempt k+1 is              *)
(* min(1000 * 2^(k-1), 3000) ms; no wait follows the second attempt; the   *)
(* waits of one createFreshClient call sum to at most 3000 ms (1000 ms).   *)
(***************************************************************************)
ExpectedWait(k) ==
    LET grown == 1000 * (2 ^ (k - 1)) IN IF grown <= 3000 THEN grown ELSE 3000

RECURSIVE SumSeq(_)
SumSeq(q) == IF q = <<>> THEN 0 ELSE Head(q) + SumSeq(Tail(q))

C5_BackoffSchedule ==
    \A o \in Ops :
        /\ \A k \in 1..Len(slept[o]) : slept[o][k] = ExpectedWait(k)
        /\ pc[o] = "sleep" => Len(slept[o]) = Len(authLog[o])
        /\ pc[o] = "auth" => Len(slept[o]) = authCalls[o] - 1
        /\ SessionFailed(o) => slept[o] = <<1000>>
        /\ SumSeq(slept[o]) <= 3000

\* Both attempts were rejected and the only wait was the 1000 ms one.
C5_Witness ==
    \E o \in Ops : SessionFailed(o) /\ Len(authLog[o]) = 2 /\ slept[o] = <<1000>>

(***************************************************************************)
(* C6.  If every attempt is rejected, createFreshClient throws an error    *)
(* whose message carries the attempt count 2 and the message of the last   *)
(* rejection, and no client is returned or kept; if an attempt succeeds,   *)
(* the client of that attempt is returned and nothing is thrown.           *)
(***************************************************************************)
LastRejection(o) == authLog[o][Len(authLog[o])]

C6_LastCauseOrSession ==
    \A o \in Ops :
        /\ SessionFailed(o) =>
              /\ Len(authLog[o]) = 2
              /\ instanceofMcpError(authThrown[o])
              /\ authThrown[o].message =
                    "MCP error -32603: Keycloak authentication failed after 2 attempts: "
                        \o (IF LastRejection(o).message = "" THEN "Unknown error"
                            ELSE LastRejection(o).message)
              /\ authReturned[o] = NoClient
              /\ client[o] = NoClient
              /\ fresh[o] = NoClient
        /\ SessionCreated(o) =>
              /\ authThrown[o] = NoError
              /\ authReturned[o] = built[o][Len(built[o])]
              /\ Len(built[o]) = authCalls[o]

\* Two different rejections, and the message thrown quotes the second.
C6_Witness ==
    \E o \in Ops :
        /\ SessionFailed(o)
        /\ authLog[o] = << Error("Network response was not OK."),
                           Error("invalid_grant: Invalid user credentials") >>
        /\ authThrown[o].message =
              "MCP error -32603: Keycloak authentication failed after 2 attempts: invalid_grant: Invalid user credentials"

(***************************************************************************)
(* C7.  The operation body is invoked exactly once when a session was      *)
(* created and never otherwise; when the body fails, the call ends in      *)
(* that same step: no second invocation and no new authentication attempt. *)
(***************************************************************************)
C7_BodyInvokedOnce ==
    /\ [](\A o \in Ops :
            /\ bodyCalls[o] = (IF SessionCreated(o) THEN 1 ELSE 0)
            /\ bodyEnd[o].kind # "none" => (Done(o) /\ bodyCalls[o] = 1))
    /\ [][\A o \in Ops :
            (bodyEnd[o].kind = "none" /\ bodyEnd'[o].kind = "throw")
                => /\ pc'[o] = "done"
                   /\ bodyCalls'[o] = bodyCalls[o]
                   /\ authCalls'[o] = authCalls[o]
                   /\ nextClient' = nextClient]_vars

\* The body failed after one invocation that followed a retried authentication.
C7_Witness ==
    \E o \in Ops :
        Done(o) /\ bodyEnd[o].kind = "throw" /\ bodyCalls[o] = 1 /\ authCalls[o] = 2

(***************************************************************************)
(* C8.  When the operation body resolves, executeOperation returns exactly *)
(* the value the body resolved with and throws nothing.                    *)
(***************************************************************************)
C8_ResultUnchanged ==
    \A o \in Ops :
        (Done(o) /\ bodyEnd[o].kind = "return")
            => outcome[o] = Returned(bodyEnd[o].value)

C8_Witness ==
    \E o \in Ops :
        Done(o) /\ bodyEnd[o] = Returned("{id: u-1}") /\ outcome[o] = Returned("{id: u-1}")

(***************************************************************************)
(* C9.  A failure of a category other than the generic one is reported     *)
(* with the fixed message of its category: two failures of the same such   *)
(* category are reported identically whatever their own messages; the      *)
(* generic report is the one built from the failure's own message.         *)
(***************************************************************************)
FailureCategory(o) ==
    IF instanceofError(Caught(o)) THEN FirstMatch(Caught(o).message) ELSE Generic

C9_FixedTemplates ==
    /\ \A o \in Ops :
          Failed(o) =>
              IF FailureCategory(o) # Generic
              THEN outcome[o].error.message
                      = "MCP error -32603: " \o CategoryMessage[FailureCategory(o)]
              ELSE instanceofError(Caught(o)) =>
                      outcome[o].error.message
                         = "MCP error -32603: Keycloak operation failed: "
                              \o Caught(o).message
    /\ \A o1, o2 \in Ops :
          (/\ Failed(o1) /\ Failed(o2)
           /\ FailureCategory(o1) = FailureCategory(o2)
           /\ FailureCategory(o1) # Generic)
              => outcome[o1] = outcome[o2]

\* Two failures with different messages of the TLS category, reported alike.
C9_Witness ==
    \E o1, o2 \in Ops :
        /\ Failed(o1) /\ Failed(o2)
        /\ bodyEnd[o1].error = Error("SSL routines: wrong version number")
        /\ bodyEnd[o2].error = Error("TLS Handshake failed")
        /\ outcome[o1] = outcome[o2]

(***************************************************************************)
(* C10.  Whenever executeOperation has completed (by return, by a failed   *)
(* operation body or by a failed session creation), no client reference    *)
(* of that call remains.                                                   *)
(***************************************************************************)
C10_HandleDiscarded ==
    \A o \in Ops :
        (Done(o) \/ pc[o] = "idle") => (client[o] = NoClient /\ fresh[o] = NoClient)

\* A call that had a session completed, by return and by throw.
C10_Witness ==
    \E o1, o2 \in Ops :
        /\ Done(o1) /\ SessionCreated(o1) /\ outcome[o1].kind = "return"
        /\ Done(o2) /\ SessionCreated(o2) /\ outcome[o2].kind = "throw"
        /\ client[o1] = NoClient /\ client[o2] = NoClient

(***************************************************************************)
(* C11.  Under any interleaving of tool calls in flight together, a call   *)
(* holds at most one live client at a time, the clients two calls hold or  *)
(* have made admin calls on are different objects, and a client a call     *)
(* acquires was never handed out before.                                   *)
(***************************************************************************)
\* The clients the call references now, and those it made admin calls on.
Live(o) == {fresh[o], client[o]} \ {NoClient}
UsedBy(o) == { calls[o][i].on : i \in 1..Len(calls[o]) }

C11_OneClientPerCall ==
    /\ [](/\ \A o \in Ops :
              /\ Cardinality(Live(o)) <= 1
              /\ \A c \in Live(o) \cup UsedBy(o) : c \in 1..nextClient
              /\ \A i \in 1..Len(calls[o]) :
                    \E j \in 1..Len(built[o]) : built[o][j] = calls[o][i].on
          /\ \A o1, o2 \in Ops :
              o1 # o2 => /\ Live(o1) \cap Live(o2) = {}
                         /\ UsedBy(o1) \cap UsedBy(o2) = {}
                         /\ Live(o1) \cap UsedBy(o2) = {})
    /\ [][\A o \in Ops :
            (fresh'[o] # NoClient /\ fresh'[o] # fresh[o]) => fresh'[o] > nextClient]_vars

\* Two calls are in their bodies together on different clients, after an
\* earlier client was dropped.
C11_Witness ==
    \E o1, o2 \in Ops :
        /\ o1 # o2
        /\ pc[o1] = "body" /\ pc[o2] = "body"
        /\ calls[o1] # <<>> /\ calls[o2] # <<>>
        /\ client[o1] # client[o2]
        /\ nextClient >= 3

(***************************************************************************)
(* C12.  For every tool that declares an input shape, a tool call whose    *)
(* argument bag violates the shape fails with an error, and no client is   *)
(* constructed, no authentication is attempted and no admin call is made   *)
(* for it.                                                                 *)
(***************************************************************************)
\* The arguments of the request in slot o violate the schema its tool declares.
ViolatesShape(o) ==
    /\ request[o].name \in ModelledTools
    /\ ~Parses(SchemaOf(request[o].name), request[o].args)

C12_InvalidArgsFailClosed ==
    \A o \in ToolOps :
        ViolatesShape(o)
            => /\ pc[o] = "replied"
               /\ response[o].kind = "error"
               /\ built[o] = <<>> /\ authCalls[o] = 0 /\ calls[o] = <<>>

(***************************************************************************)
(* C13.  In a tool call whose body starts with a lookup (of a client by    *)
(* clientId, of a role by name), when the lookup resolves to no result or  *)
(* to a result without an id, the lookup is the only admin call of that    *)
(* tool call: the update, delete, createRole, updateRole, delRole,         *)
(* add/delRealmRoleMappings or listSessions that would follow is never     *)
(* made.                                                                   *)
(***************************************************************************)
FollowUpApis ==
    { "clients.update", "clients.del", "clients.createRole", "clients.updateRole",
      "clients.delRole", "users.addRealmRoleMappings", "users.delRealmRoleMappings",
      "clients.listSessions" }

\* The lookup of slot o resolved to nothing, or to a result without an id.
LookupCameBackEmpty(o) ==
    /\ found[o].resolved
    /\ \/ found[o].entities = <<>>
       \/ found[o].entities[1].id.t = "undefined"

C13_NoFollowUpAfterEmptyLookup ==
    \A o \in ToolOps :
        LookupCameBackEmpty(o)
            => /\ Len(calls[o]) = 1
               /\ calls[o][1].api \in {"clients.find", "roles.findOneByName"}
               /\ \A i \in 1..Len(calls[o]) : calls[o][i].api \notin FollowUpApis
               /\ pc[o] \in {"done", "replied"}

\* update-client answered after its lookup returned a client without an id.
C13_Witness ==
    \E o \in ToolOps :
        /\ request[o].name = "update-client"
        /\ found[o].resolved
        /\ found[o].entities # <<>>
        /\ found[o].entities[1].id.t = "undefined"
        /\ pc[o] = "replied"

(***************************************************************************)
(* C14.  In a tool call whose lookup resolves to no result, whatever the   *)
(* clientId or roleName looked up, the error the caller receives states    *)
(* that the named client or role was not found.                            *)
(***************************************************************************)
C14_ZeroResultsReportedNotFound ==
    \A o \in ToolOps :
        (found[o].resolved /\ found[o].entities = <<>> /\ pc[o] = "replied")
            => /\ response[o].kind = "error"
               /\ includes(response[o].error.message,
                           NotFound(request[o].name, ParsedOf(request[o])).message)

(***************************************************************************)
(* C15.  A tool call whose name has no case in the switch is answered      *)
(* with the MethodNotFound error "Unknown tool: <name>", exactly as the    *)
(* default case threw it, and no client is constructed, no authentication  *)
(* attempted and no admin call made for it.                                *)
(***************************************************************************)
C15_UnknownToolRejected ==
    \A o \in ToolOps :
        (request[o] # NoRequest /\ request[o].name \notin HandledTools)
            => /\ pc[o] = "replied"
               /\ response[o].kind = "error"
               /\ instanceofMcpError(response[o].error)
               /\ response[o].error.message
                    = "MCP error -32601: Unknown tool: " \o request[o].name
               /\ built[o] = <<>> /\ authCalls[o] = 0 /\ calls[o] = <<>>

\* The call of the unknown tool drop-database has been answered.
C15_Witness ==
    \E o \in ToolOps :
        /\ request[o].name = "drop-database"
        /\ pc[o] = "replied"
        /\ response[o].kind = "error"

(***************************************************************************)
(* C16.  Every error the handler throws is an McpError, whatever was       *)
(* thrown by the parse, the session creation or an admin call (values that *)
(* are not Errors included); an McpError thrown to the handler's catch     *)
(* leaves the handler as it is, not wrapped again.                         *)
(***************************************************************************)
C16_OnlyMcpErrorsLeave ==
    \A o \in ToolOps :
        (pc[o] = "replied" /\ response[o].kind = "error")
            => /\ instanceofMcpError(response[o].error)
               /\ outcome[o].kind = "throw"
                    => /\ instanceofMcpError(outcome[o].error)
                       /\ response[o].error = outcome[o].error
               /\ request[o].name \notin HandledTools
                    => response[o].error = McpError(MethodNotFound,
                                               "Unknown tool: " \o request[o].name)
               /\ (outcome[o].kind # "throw" /\ request[o].name \in HandledTools)
                    => /\ ViolatesShape(o)
                       /\ response[o].error.message =
                            "MCP error -32603: Tool execution failed: "
                            \o ZodError(SchemaOf(request[o].name), request[o].args).message

\* An admin call rejected with a value that is not an Error, and the caller
\* was answered with an McpError.
C16_Witness ==
    \E o \in ToolOps :
        /\ pc[o] = "replied"
        /\ bodyEnd[o].kind = "throw"
        /\ bodyEnd[o].error.kind = "value"
        /\ instanceofMcpError(response[o].error)

(***************************************************************************)
(* C17.  When the operation body fails with an Error whose message         *)
(* contains "econnrefused" or "enotfound" in any letter case, the error    *)
(* the caller receives is never the generic one; for the message           *)
(* "ECONNREFUSED 127.0.0.1:8080" it is the unreachable-host one.           *)
(***************************************************************************)
\* The operation body of slot o failed with an Error naming a refused
\* connection or an unknown host.
BodyRefused(o) ==
    /\ Failed(o)
    /\ bodyEnd[o].kind = "throw"
    /\ instanceofError(bodyEnd[o].error)
    /\ PatternsIn(bodyEnd[o].error.message) \cap {"econnrefused", "enotfound"} # {}

C17_RefusedNeverGeneric ==
    \A o \in Ops :
        BodyRefused(o)
            => /\ CategoryOf(outcome[o].error) # Generic
               /\ bodyEnd[o].error.message = "ECONNREFUSED 127.0.0.1:8080"
                    => /\ CategoryOf(outcome[o].error) = "unreachable-host"
                       /\ outcome[o].error.message = "MCP error -32603: " \o MsgUnreachable

\* The body failed with "ECONNREFUSED 127.0.0.1:8080".
C17_Witness ==
    \E o \in Ops :
        BodyRefused(o) /\ bodyEnd[o].error.message = "ECONNREFUSED 127.0.0.1:8080"

(***************************************************************************)
(* C18.  A create-user call with valid arguments makes no admin call       *)
(* before it has a session and, once it has one, exactly one: users.create *)
(* on a client set to the realm of the arguments, with the username,       *)
(* email, firstName and lastName of the arguments, enabled = true and      *)
(* nothing else.  The call is answered with a result only when             *)
(* users.create resolved, and the text of the result contains the          *)
(* JSON serialization of the value it resolved with.                       *)
(***************************************************************************)
\* Slot o holds a request for the tool with arguments its schema accepts.
ValidCall(o, tool) ==
    /\ request[o].name = tool
    /\ Parses(SchemaOf(tool), request[o].args)

C18_CreateUserRoundTrip ==
    \A o \in ToolOps :
        ValidCall(o, "create-user")
            => LET args == request[o].args
               IN  /\ Len(calls[o]) = (IF SessionCreated(o) THEN 1 ELSE 0)
                   /\ \A i \in 1..Len(calls[o]) :
                        /\ calls[o][i].api = "users.create"
                        /\ calls[o][i].realm = args.realm.v
                        /\ DOMAIN calls[o][i].params
                             = {"username", "email", "firstName", "lastName", "enabled"}
                        /\ \A k \in {"username", "email", "firstName", "lastName"} :
                             calls[o][i].params[k] = args[k]
                        /\ calls[o][i].params.enabled = Bool(TRUE)
                   /\ (pc[o] = "replied" /\ response[o].kind = "result")
                        => /\ bodyEnd[o].kind = "return"
                           /\ Len(calls[o]) = 1
                           /\ response[o].text.t = "string"
                           /\ includes(response[o].text.v,
                                       Template(Stringify(bodyEnd[o].value)))
                           /\ bodyEnd[o].value = "{id: u-1}"
                                => response[o].text.v =
                                     "User created successfully: {\n  \"id\": \"u-1\"\n}"

\* create-user for john.doe in realm master answered with the created user.
C18_Witness ==
    \E o \in ToolOps :
        /\ ValidCall(o, "create-user")
        /\ request[o].args.username = Str("john.doe")
        /\ pc[o] = "replied"
        /\ response[o].kind = "result"
        /\ bodyEnd[o].value = "{id: u-1}"
        /\ calls[o][1].realm = "master"

(***************************************************************************)
(* C19.  A reset-user-password call with valid arguments makes no admin    *)
(* call before it has a session and, once it has one, exactly one:         *)
(* users.resetPassword for the userId of the arguments with a credential   *)
(* of type "password" whose value is newPassword and whose temporary flag  *)
(* is false when the arguments have no temporary field and the boolean     *)
(* supplied otherwise.                                                     *)
(***************************************************************************)
C19_ResetPasswordCredential ==
    \A o \in ToolOps :
        ValidCall(o, "reset-user-password")
            => LET args == request[o].args
               IN  /\ Len(calls[o]) = (IF SessionCreated(o) THEN 1 ELSE 0)
                   /\ \A i \in 1..Len(calls[o]) :
                        /\ calls[o][i].api = "users.resetPassword"
                        /\ calls[o][i].realm = args.realm.v
                        /\ calls[o][i].params.id = args.userId
                        /\ calls[o][i].params.credential.type = Str("password")
                        /\ calls[o][i].params.credential.value = args.newPassword
                        /\ calls[o][i].params.credential.temporary =
                             (IF "temporary" \in DOMAIN args THEN args.temporary
                              ELSE Bool(FALSE))

\* A reset without a temporary field was answered after its one call.
C19_Witness ==
    \E o \in ToolOps :
        /\ ValidCall(o, "reset-user-password")
        /\ "temporary" \notin DOMAIN request[o].args
        /\ pc[o] = "replied"
        /\ response[o].kind = "result"
        /\ Len(calls[o]) = 1
        /\ calls[o][1].params.credential.temporary = Bool(FALSE)

(***************************************************************************)
(* C20.  A valid list-sessions call without a clientId (absent, or the     *)
(* empty string, which the body's `if (clientId)` takes for absent) makes  *)
(* one admin call once it has a session, realms.getClientSessionStats for  *)
(* the realm, and never clients.find or clients.listSessions.  With a      *)
(* clientId its first admin call is clients.find for that clientId;        *)
(* clients.listSessions is made only in the step in which that lookup      *)
(* resolves to a client with an id, for that id; when the lookup resolves  *)
(* to anything else the tool call fails having made no session-listing     *)
(* call.                                                                   *)
(***************************************************************************)
\* The arguments of slot o give a clientId.
GivesClientId(o) ==
    /\ "clientId" \in DOMAIN request[o].args
    /\ request[o].args.clientId # Str("")

C20_ListSessionsPaths ==
    /\ [](\A o \in ToolOps :
            ValidCall(o, "list-sessions")
                => LET args == request[o].args
                       made == calls[o]
                   IN  IF ~GivesClientId(o)
                       THEN /\ Len(made) = (IF SessionCreated(o) THEN 1 ELSE 0)
                            /\ \A i \in 1..Len(made) :
                                 /\ made[i].api = "realms.getClientSessionStats"
                                 /\ made[i].params.realm = args.realm
                            /\ ~found[o].resolved
                       ELSE /\ Len(made) <= 2
                            /\ SessionCreated(o) <=> Len(made) >= 1
                            /\ Len(made) >= 1
                                 => /\ made[1].api = "clients.find"
                                    /\ made[1].params.clientId = args.clientId
                            /\ Len(made) = 2
                                 => /\ made[2].api = "clients.listSessions"
                                    /\ found[o].resolved
                                    /\ found[o].entities # <<>>
                                    /\ found[o].entities[1].id.t = "string"
                                    /\ found[o].entities[1].id.v # ""
                                    /\ made[2].params.id = found[o].entities[1].id
                            /\ (found[o].resolved
                                /\ (found[o].entities = <<>>
                                    \/ found[o].entities[1].id \in {Undef, Str("")}))
                                 => /\ Len(made) = 1
                                    /\ outcome[o].kind = "throw"
                                    /\ pc[o] = "replied" => response[o].kind = "error")
    /\ [][\A o \in ToolOps :
            (ValidCall(o, "list-sessions") /\ Len(calls'[o]) = 2 /\ Len(calls[o]) # 2)
                => /\ calls[o] = << calls'[o][1] >>
                   /\ pending[o] = "lookup"
                   /\ found'[o].resolved /\ ~found[o].resolved]_vars

\* list-sessions for the client web listed the sessions of the client found.
C20_Witness ==
    \E o \in ToolOps :
        /\ ValidCall(o, "list-sessions")
        /\ GivesClientId(o)
        /\ pc[o] = "replied"
        /\ response[o].kind = "result"
        /\ Len(calls[o]) = 2
        /\ calls[o][2].params.id = Str("c-77")

(***************************************************************************)
(* C21.  No tool call that fails (arguments rejected by the schema,        *)
(* authentication failed on every attempt, admin call failed, tool name    *)
(* unknown) ends the process: once running the process stays running, an   *)
(* idle slot accepts the next tool call, which works on a client           *)
(* constructed for it; the process exits only when server.connect fails    *)
(* at startup, with status 1 and before any tool call.                     *)
(***************************************************************************)
C21_ProcessSurvivesFailures ==
    /\ [](/\ process.state = "exited"
              => /\ process.code = 1
                 /\ failures = 0 /\ nextClient = 0
                 /\ \A o \in Ops : pc[o] = "idle" /\ request[o] = NoRequest
          /\ failures > 0 => process = Running
          /\ \A o \in ToolOps :
                /\ (process = Running /\ pc[o] = "idle"
                    /\ nextClient + maxRetries <= MaxClients)
                     => /\ ENABLED CallTool(o, Request("list-users", Demo))
                        /\ ENABLED CallTool(o, Request("drop-database", Demo))
                /\ client[o] # NoClient
                     => \E j \in 1..Len(built[o]) : built[o][j] = client[o])
    /\ [][process = Running => process' = Running]_vars

\* After two failed tool calls a tool call was answered with a result.
C21_Witness ==
    \E o \in ToolOps :
        /\ failures = 2
        /\ process = Running
        /\ pc[o] = "replied"
        /\ response[o].kind = "result"
        /\ calls[o] # <<>>

(***************************************************************************)
(* C22.  A tool call whose authentication request or admin call never      *)
(* settles does not stay in flight forever: it is eventually answered.     *)
(* The code sets no timer on either await, so such a call waits forever.   *)
(***************************************************************************)
C22_HungCallIsAnswered ==
    \A o \in ToolOps : (pc[o] \in {"auth", "body"}) ~> (pc[o] = "replied")

(***************************************************************************)
(* C23.  With tool calls for different realms in flight together, the      *)
(* client of a realm-scoped tool call is set to the realm of that call's   *)
(* arguments before its first admin call, no step of another call changes  *)
(* it, and every admin call of the tool call is made on that realm.        *)
(***************************************************************************)
\* Slot o holds a valid request of a tool whose body sets the realm.
RealmScoped(o) ==
    /\ request[o].name \in ModelledTools
    /\ SetsRealm(request[o].name)
    /\ Parses(SchemaOf(request[o].name), request[o].args)

C23_OwnRealmOnly ==
    /\ [](\A o \in Ops :
            RealmScoped(o)
                => /\ \A i \in 1..Len(calls[o]) :
                        calls[o][i].realm = request[o].args.realm.v
                   /\ client[o] # NoClient
                        => /\ realmName[client[o]] = request[o].args.realm.v
                           /\ calls[o] # <<>>)
    /\ [][\A o \in Ops :
            (client[o] # NoClient /\ client'[o] = client[o])
                => realmName'[client[o]] = realmName[client[o]]]_vars

\* Two calls for different realms are in their bodies together, one of them
\* having made its second admin call.
C23_Witness ==
    \E o1, o2 \in Ops :
        /\ o1 # o2
        /\ RealmScoped(o1) /\ RealmScoped(o2)
        /\ pc[o1] = "body" /\ pc[o2] = "body"
        /\ request[o1].args.realm # request[o2].args.realm
        /\ Len(calls[o1]) = 2
        /\ calls[o2] # <<>>
        /\ calls[o1][2].realm # calls[o2][1].realm

(***************************************************************************)
(* C24.  A tool call enters executeOperation at most once: in the step in  *)
(* which the request arrives, and never again once executeOperation has    *)
(* settled.  It enters it when the tool has a case and the parse did not   *)
(* throw, and not otherwise.  So a tool call gets at most one client from  *)
(* createFreshClient and runs at most one operation body, and it is        *)
(* answered with a result only when executeOperation returned, every       *)
(* admin call of its body having resolved.                                 *)
(***************************************************************************)
\* The handler reaches its executeOperation call on the request of slot o.
ReachesExecute(o) ==
    /\ request[o].name \in HandledTools
    /\ ParsesArgs(request[o].name)
         => Parses(SchemaOf(request[o].name), request[o].args)

C24_OneExecutePerCall ==
    /\ [](\A o \in ToolOps :
            /\ request[o] # NoRequest
                 => IF ReachesExecute(o)
                    THEN authCalls[o] >= 1 /\ built[o] # <<>>
                    ELSE authCalls[o] = 0 /\ built[o] = <<>> /\ pc[o] = "replied"
            /\ bodyCalls[o] <= 1
            /\ authCalls[o] <= maxRetries
            /\ (pc[o] = "replied" /\ response[o].kind = "result")
                 => /\ outcome[o].kind = "return"
                    /\ bodyEnd[o].kind = "return"
                    /\ authThrown[o] = NoError
                    /\ pending[o] = "none"
                    /\ calls[o] # <<>>)
    /\ [][\A o \in ToolOps :
            /\ (authCalls[o] = 0 /\ authCalls'[o] > 0)
                 => request[o] = NoRequest /\ request'[o] # NoRequest
            /\ pc[o] = "done" => pc'[o] \in {"done", "replied"}
            /\ pc[o] = "replied" => pc'[o] \in {"replied", "idle"}
            /\ authReturned[o] # NoClient
                 => authReturned'[o] \in {authReturned[o], NoClient}]_vars

\* A call whose authentication was retried and whose admin call then failed
\* was answered with an error after one run of the body.
C24_Witness ==
    \E o \in ToolOps :
        /\ ReachesExecute(o)
        /\ pc[o] = "replied"
        /\ response[o].kind = "error"
        /\ authCalls[o] = 2
        /\ bodyCalls[o] = 1
        /\ bodyEnd[o].kind = "throw"

(***************************************************************************)
(* C25.  When every client.auth and every admin call settles, every tool   *)
(* call is eventually answered, with one outcome that is a result or an    *)
(* error and does not change afterwards, after at most two client.auth     *)
(* calls, at most one backoff wait and at most one run of the operation    *)
(* body.                                                                   *)
(***************************************************************************)
C25_EveryCallTerminates ==
    /\ \A o \in ToolOps : (pc[o] # "idle") ~> (pc[o] = "replied")
    /\ [](\A o \in ToolOps :
            /\ authCalls[o] <= 2
            /\ Len(slept[o]) <= 1
            /\ bodyCalls[o] <= 1
            /\ IF pc[o] = "replied"
               THEN response[o].kind \in {"result", "error"}
               ELSE response[o] = NoResponse)
    /\ [][\A o \in ToolOps :
            response[o] # NoResponse
                => response'[o] \in {response[o], NoResponse}]_vars

\* A call was answered with a result after a failed and a successful
\* authentication, one wait and one run of the body.
C25_Witness ==
    \E o \in ToolOps :
        /\ pc[o] = "replied"
        /\ response[o].kind = "result"
        /\ authCalls[o] = 2
        /\ slept[o] = <<1000>>
        /\ bodyCalls[o] = 1

(***************************************************************************)
(* C26.  The names the ListTools handler advertises are the case labels of *)
(* the CallTool switch: a call is answered with the MethodNotFound error   *)
(* "Unknown tool: <name>" exactly when its name is not advertised, and a   *)
(* call of an advertised name is parsed or reaches executeOperation.       *)
(***************************************************************************)
C26_AdvertisedAreHandled ==
    /\ AdvertisedTools = HandledTools
    /\ \A o \in ToolOps :
          request[o] # NoRequest =>
              /\ (pc[o] = "replied" /\ response[o] = Failure(UnknownTool(request[o].name)))
                    <=> request[o].name \notin AdvertisedTools
              /\ (request[o].name \in AdvertisedTools /\ authCalls[o] = 0)
                    => /\ pc[o] = "replied"
                       /\ response[o] = Failure(HandlerCatch(
                              ZodError(SchemaOf(request[o].name), request[o].args)))

\* The advertised tool list-sessions was dispatched to its case and answered
\* with a result.
C26_Witness ==
    \E o \in ToolOps :
        /\ request[o].name = "list-sessions"
        /\ request[o].name \in AdvertisedTools
        /\ pc[o] = "replied"
        /\ response[o].kind = "result"

(***************************************************************************)
(* C27.  Every client.auth call is made on a client constructed for that   *)
(* attempt; a client whose client.auth rejected is not returned by         *)
(* createFreshClient, not handed to the operation body and not retried, so *)
(* every admin call of a tool call is made on the client whose client.auth *)
(* resolved in that tool call.                                             *)
(***************************************************************************)
\* The clients of call o whose client.auth has rejected, while the call is
\* in createFreshClient.
FailedClients(o) == { built[o][i] : i \in 1..Len(authLog[o]) }

\* client.auth of call o rejects in this step.
AuthRejected(o) == pc[o] = "auth" /\ Len(authLog'[o]) = Len(authLog[o]) + 1

C27_FailedClientNeverUsed ==
    /\ [](\A o \in ToolOps :
            /\ Len(built[o]) = authCalls[o]
            /\ \A i, j \in 1..Len(built[o]) : built[o][i] = built[o][j] => i = j
            /\ pc[o] = "auth" =>
                  /\ fresh[o] = built[o][Len(built[o])]
                  /\ fresh[o] \notin FailedClients(o)
                  /\ Len(authLog[o]) = Len(built[o]) - 1
            /\ pc[o] = "body" => client[o] = authReturned[o] /\ client[o] # NoClient
            /\ \A i \in 1..Len(calls[o]) :
                  /\ calls[o][i].on = authReturned[o]
                  /\ calls[o][i].on = built[o][Len(built[o])])
    /\ [][\A o \in ToolOps :
            /\ AuthRejected(o) =>
                  /\ authReturned'[o] = authReturned[o]
                  /\ client'[o] = client[o]
                  /\ bodyCalls'[o] = bodyCalls[o]
                  /\ calls'[o] = calls[o]
                  /\ fresh'[o] # fresh[o]
            /\ (authReturned'[o] # authReturned[o] /\ authReturned'[o] # NoClient) =>
                  /\ pc[o] = "auth" /\ ~AuthRejected(o)
                  /\ authReturned'[o] = fresh[o]
                  /\ authReturned'[o] \notin FailedClients(o)]_vars

\* The first client.auth rejected, the second resolved, and the admin call
\* went out on the second client.
C27_Witness ==
    \E o \in ToolOps :
        /\ Len(built[o]) = 2
        /\ authReturned[o] = built[o][2]
        /\ authReturned[o] # built[o][1]
        /\ calls[o] # <<>>
        /\ calls[o][1].on = built[o][2]

(***************************************************************************)
(* C28.  In list-sessions, create-role, update-role and delete-role a      *)
(* clientId that is the empty string takes the else branch of              *)
(* `if (clientId)`: no clients.find is made, the only admin call is the    *)
(* realm-level one, the same call and the same answer as for the arguments *)
(* without clientId, and the call does not fail with the not-found error.  *)
(***************************************************************************)
\* The tools whose body tests clientId, and their realm-level calls.
ClientIdTools == {"list-sessions", "create-role", "update-role", "delete-role"}
RealmLevelApis ==
    {"realms.getClientSessionStats", "roles.create", "roles.updateByName",
     "roles.delByName"}

\* Slot o holds a valid request of one of these tools with clientId "".
EmptyClientId(o) ==
    /\ request[o] # NoRequest
    /\ request[o].name \in ClientIdTools
    /\ Parses(SchemaOf(request[o].name), request[o].args)
    /\ "clientId" \in DOMAIN request[o].args
    /\ request[o].args.clientId = Str("")

C28_EmptyClientIdIsAbsent ==
    \A o \in ToolOps :
        EmptyClientId(o)
            => LET tool == request[o].name
                   absent == Parsed(SchemaOf(tool), Rest(request[o].args, {"clientId"}))
                   same == MainCall(tool, absent, NoEntity)
               IN  /\ ~found[o].resolved
                   /\ pending[o] # "lookup"
                   /\ Len(calls[o]) = (IF SessionCreated(o) THEN 1 ELSE 0)
                   /\ \A i \in 1..Len(calls[o]) :
                         /\ calls[o][i].api \in RealmLevelApis
                         /\ calls[o][i].api = same.api
                         /\ calls[o][i].params = same.params
                   /\ bodyEnd[o].kind = "throw"
                         => bodyEnd[o].error # NotFound(tool, ParsedOf(request[o]))
                   /\ (pc[o] = "replied" /\ response[o].kind = "result")
                         => response[o].text
                              = SuccessText(tool, absent, outcome[o].value)

\* delete-role with clientId "" deleted the realm role and succeeded.
C28_Witness ==
    \E o \in ToolOps :
        /\ EmptyClientId(o)
        /\ request[o].name = "delete-role"
        /\ pc[o] = "replied"
        /\ response[o].kind = "result"
        /\ calls[o][1].api = "roles.delByName"

ViolatesCatalogue(o) ==
    /\ request[o] # NoRequest
    /\ request[o].name \in ModelledTools
    /\ ~Conforms(request[o].name, request[o].args)

C30_OnlyListRealmsUnvalidated ==
    \A o \in ToolOps :
        /\ (request[o] # NoRequest /\ request[o].name = "list-realms")
              => /\ authCalls[o] >= 1 /\ built[o] # <<>>
                 /\ Len(calls[o]) = (IF SessionCreated(o) THEN 1 ELSE 0)
                 /\ \A i \in 1..Len(calls[o]) :
                       calls[o][i].api = "realms.find" /\ calls[o][i].params = NoParams
                 /\ (pc[o] = "replied" /\ response[o].kind = "error")
                       => outcome[o].kind = "throw"
        /\ (ViolatesCatalogue(o) /\ request[o].name # "list-realms")
              => /\ pc[o] = "replied"
                 /\ response[o].kind = "error"
                 /\ built[o] = <<>> /\ authCalls[o] = 0 /\ calls[o] = <<>>

\* list-realms with random_string 42 listed the realms and succeeded.
C30_Witness ==
    \E o \in ToolOps :
        /\ ViolatesCatalogue(o)
        /\ request[o] = Request("list-realms", [random_string |-> Num("42")])
        /\ pc[o] = "replied"
        /\ response[o].kind = "result"
        /\ calls[o][1].api = "realms.find"

=============================================================================
